---- MODULE Spec2Model ----
(***************************************************************************)
(* Model of the retrieval core of pdf-rag-retrieval:                       *)
(*   documents/services/chromadb_service.py  (ChromaDBService)             *)
(*   documents/services/embedding_service.py (EmbeddingService)            *)
(*                                                                         *)
(* Python floats are modelled as exact rationals [n |-> Int, d |-> Nat>0]  *)
(* in lowest terms, so two scores are equal exactly when their records     *)
(* are equal.  Python strings that are only tokenised are sequences of     *)
(* words; strings whose length is measured are sequences of characters.    *)
(***************************************************************************)
EXTENDS Integers, Sequences, FiniteSets, TLC

VARIABLES
    pc,        \* which operation has run: "idle" until one has
    scores,    \* _normalize_scores: the argument list
    normed,    \* _normalize_scores: the returned list
    args,      \* hybrid_search: the call's arguments
    resp,      \* hybrid_search: what collection.query answered
    candidates,\* hybrid_search: the local list `candidates` after line 196
    ret,       \* hybrid_search: what the caller gets
    store_log, \* the collection.query requests issued so far
    text,      \* split_text_into_chunks: the argument
    cfg,       \* EmbeddingService: chunk_size, chunk_overlap
    chunks,    \* split_text_into_chunks: the returned list
    emb,       \* create_chunk_embedding_id: the arguments and the returned id
    kw,        \* _keyword_overlap_score: the arguments and the returned score
    collection,\* the vector store's contents as concurrent callers see them
    calls,     \* the hybrid_search calls under way, one record of locals per caller
    view,      \* a view function under way: its name, request and local variables
    response,  \* the HTTP response of the view
    llm_log,   \* the calls of gemini_service.search_and_answer so far
    db,        \* the rows the view has written: chat messages, query history, title
    tfidf,     \* _compute_tfidf_scores: the arguments and the returned list
    answer,    \* search_and_answer: the arguments and the returned dict
    store,     \* the vector store's collection: the set of its entries
    rows,      \* the database: Document rows and DocumentChunk rows
    ing,       \* ingest_pdfs: the position in the file being processed and its locals
    ops        \* the calls made on the collection and the chunk table, with their effect

normVars   == <<scores, normed>>
searchVars == <<args, resp, candidates, ret, store_log>>
chunkVars  == <<text, cfg, chunks>>
callVars   == <<collection, calls>>
viewVars   == <<view, response, llm_log, db>>
ingestVars == <<store, rows, ing, ops>>

vars == <<pc, normVars, searchVars, chunkVars, emb, kw, callVars, viewVars, tfidf, answer,
          ingestVars>>

(***************************************************************************)
(* Sequence helpers                                                        *)
(***************************************************************************)
Range(s) == {s[i] : i \in DOMAIN s}

RECURSIVE SeqsUpTo(_, _)
\* All sequences over S of length at most k.
SeqsUpTo(S, k) ==
    IF k = 0 THEN {<<>>}
    ELSE LET shorter == SeqsUpTo(S, k - 1)
         IN  shorter \cup {Append(s, x) : s \in {t \in shorter : Len(t) = k - 1}, x \in S}

(***************************************************************************)
(* Exact rational arithmetic standing for Python float arithmetic          *)
(***************************************************************************)
Abs(x) == IF x < 0 THEN -x ELSE x

RECURSIVE GCD(_, _)
GCD(a, b) == IF b = 0 THEN a ELSE GCD(b, a % b)

\* The rational n/d (d # 0) in lowest terms with a positive denominator.
Rat(n, d) ==
    LET g == GCD(Abs(n), Abs(d))
        s == IF d < 0 THEN -1 ELSE 1
    IN  [n |-> (s * n) \div g, d |-> (s * d) \div g]

Zero == Rat(0, 1)
One  == Rat(1, 1)

RSub(a, b) == Rat(a.n * b.d - b.n * a.d, a.d * b.d)
RAdd(a, b) == Rat(a.n * b.d + b.n * a.d, a.d * b.d)
RMul(a, b) == Rat(a.n * b.n, a.d * b.d)
RDiv(a, b) == Rat(a.n * b.d, a.d * b.n)
RLeq(a, b) == a.n * b.d <= b.n * a.d
RLt(a, b)  == a.n * b.d < b.n * a.d

RMin(a, b) == IF RLeq(a, b) THEN a ELSE b
RMax(a, b) == IF RLeq(b, a) THEN a ELSE b

RECURSIVE RMinOf(_)
\* min(s) of a non-empty list
RMinOf(s) == IF Len(s) = 1 THEN s[1] ELSE RMin(s[1], RMinOf(Tail(s)))

RECURSIVE RMaxOf(_)
\* max(s) of a non-empty list
RMaxOf(s) == IF Len(s) = 1 THEN s[1] ELSE RMax(s[1], RMaxOf(Tail(s)))

(***************************************************************************)
(* ChromaDBService._normalize_scores                                       *)
(***************************************************************************)
\* The exponent of the degenerate-range threshold 1e-12.
TolExp == 12

RECURSIVE LeqTenPow(_, _, _)
\* n <= d / 10^k for naturals n, d: floor(d / 10^k) by k divisions by ten.
LeqTenPow(n, d, k) == IF k = 0 THEN n <= d ELSE LeqTenPow(n, d \div 10, k - 1)

\* diff <= 1e-12
WithinTol(diff) == diff.n <= 0 \/ LeqTenPow(diff.n, diff.d, TolExp)

\* A plausible slip: the minimum is not subtracted, scores are only divided by the range.
NormalizeNoShift(s, mn, mx) ==
    IF WithinTol(RSub(mx, mn))
    THEN [i \in DOMAIN s |-> Zero]
    ELSE [i \in DOMAIN s |-> RDiv(s[i], RSub(mx, mn))] \o <<>>

\* Lines 224-226, with mn = min(scores) and mx = max(scores).
NormalizeRange(s, mn, mx) ==
    IF WithinTol(RSub(mx, mn))
    THEN [i \in DOMAIN s |-> Zero]
    ELSE [i \in DOMAIN s |-> RDiv(RSub(s[i], mn), RSub(mx, mn))] \o <<>>

NormalizeScores(s) ==
    IF s = <<>> THEN <<>> ELSE NormalizeRange(s, RMinOf(s), RMaxOf(s))

(***************************************************************************)
(* Lexical scorers: _tokenize, _keyword_overlap_score,                     *)
(* _compute_tfidf_scores.  A text is the sequence of its \w+ runs.         *)
(***************************************************************************)
\* str.lower() on one word.
Lower(w) ==
    CASE w = "Machine"  -> "machine"
      [] w = "LEARNING" -> "learning"
      [] OTHER          -> w

Tokenize(t) == [i \in DOMAIN t |-> Lower(t[i])]

\* A plausible slip: the texts are not lower-cased before they are compared.
KeywordOverlapCaseSensitive(query, doc) ==
    IF Range(query) = {} THEN Zero
    ELSE Rat(Cardinality(Range(query) \cap Range(doc)), Cardinality(Range(query)))

\* Lines 232-238.
KeywordOverlapScore(query, doc) ==
    LET q_terms == Range(Tokenize(query))
        d_terms == Range(Tokenize(doc))
    IN  IF q_terms = {} THEN Zero
        ELSE Rat(Cardinality(q_terms \cap d_terms), Cardinality(q_terms))

\* math.log in thousandths: LnTable[k] = round(1000 * ln k).
LnTable == <<0, 693, 1099, 1386, 1609, 1792, 1946>>
LnMilli(a, b) == LnTable[a] - LnTable[b]

RECURSIVE RSumOver(_, _)
\* The sum of f[t] over t in S.
RSumOver(S, f) ==
    IF S = {} THEN Zero
    ELSE LET t == CHOOSE x \in S : TRUE
         IN  RAdd(f[t], RSumOver(S \ {t}, f))

Count(terms, t) == Cardinality({i \in DOMAIN terms : terms[i] = t})

\* Lines 246-250: the number of documents that contain t.
DocFreq(doc_tokens, t) == Cardinality({i \in DOMAIN doc_tokens : t \in Range(doc_tokens[i])})

\* Line 251: ln((N + 1) / (df + 1)) + 1.0
Idf(N, df) == Rat(LnMilli(N + 1, df + 1) + 1000, 1000)

\* A plausible slip: the term count is not divided by the document's length.
TfRawCount(terms, t) == Rat(Count(terms, t), 1)

\* Lines 257-261: tf[t] for a term t of the document.
Tf(terms, t) == Rat(Count(terms, t), Len(terms))

\* Lines 253-266: one document's score.
TfidfScore(q_terms, doc_tokens, terms) ==
    IF terms = <<>> THEN Zero
    ELSE RSumOver(q_terms \cap Range(terms),
                  [t \in q_terms \cap Range(terms) |->
                      RMul(Tf(terms, t), Idf(Len(doc_tokens), DocFreq(doc_tokens, t)))])

TfidfScores(q_terms, doc_tokens) ==
    [i \in DOMAIN doc_tokens |-> TfidfScore(q_terms, doc_tokens, doc_tokens[i])] \o <<>>

ComputeTfidfScores(query, docs) ==
    IF Range(Tokenize(query)) = {} \/ docs = <<>>
    THEN [i \in DOMAIN docs |-> Zero]
    ELSE TfidfScores(Range(Tokenize(query)), [i \in DOMAIN docs |-> Tokenize(docs[i])] \o <<>>)

(***************************************************************************)
(* ChromaDBService.hybrid_search                                           *)
(***************************************************************************)
\* Python's None where a document id is expected.
PyNone == "<None>"

\* A candidate's metadata is a dict (a function on its keys) or None.
NoneMeta == [none |-> TRUE]
IsNoneMeta(m) == "none" \in DOMAIN m

\* metadata.get('document_id')
GetDocumentId(m) == IF "document_id" \in DOMAIN m THEN m.document_id ELSE PyNone

\* Python truth value of a document id: None and the empty string are false.
Truthy(doc_id) == doc_id # PyNone /\ doc_id # ""

RECURSIVE InsertDescUnstable(_, _, _)
\* A plausible slip: an unstable sort, x placed before the elements whose key equals x's.
InsertDescUnstable(s, x, key) ==
    IF s = <<>> THEN <<x>>
    ELSE IF RLeq(Head(s)[key], x[key]) THEN <<x>> \o s
    ELSE <<Head(s)>> \o InsertDescUnstable(Tail(s), x, key)

RECURSIVE InsertDesc(_, _, _)
\* x placed after every element of the descending sequence s whose key is >= x's.
InsertDesc(s, x, key) ==
    IF s = <<>> THEN <<x>>
    ELSE IF RLt(Head(s)[key], x[key]) THEN <<x>> \o s
    ELSE <<Head(s)>> \o InsertDesc(Tail(s), x, key)

RECURSIVE SortDesc(_, _)
\* list.sort(key=..., reverse=True): stable, descending by the field `key`.
SortDesc(s, key) ==
    IF s = <<>> THEN <<>>
    ELSE InsertDesc(SortDesc(SubSeq(s, 1, Len(s) - 1), key), s[Len(s)], key)

\* A plausible slip: the combined score starts as the keyword score.
CandidatesScoredByKeyword(docs, metas, semantic_scores, keyword_scores, tfidf_scores) ==
    [i \in DOMAIN docs |->
        [text           |-> docs[i],
         metadata       |-> metas[i],
         semantic_score |-> semantic_scores[i],
         keyword_score  |-> keyword_scores[i],
         tfidf_score    |-> tfidf_scores[i],
         score          |-> keyword_scores[i]]] \o <<>>

\* Lines 175-184: one record per candidate, in the store's order.
Candidates(docs, metas, semantic_scores, keyword_scores, tfidf_scores) ==
    [i \in DOMAIN docs |->
        [text           |-> docs[i],
         metadata       |-> metas[i],
         semantic_score |-> semantic_scores[i],
         keyword_score  |-> keyword_scores[i],
         tfidf_score    |-> tfidf_scores[i],
         score          |-> semantic_scores[i]]] \o <<>>

\* A plausible slip: the distance itself is taken as the similarity.
ScoredByDistance(query, include_tfidf, r) ==
    Candidates(r.documents, r.metadatas,
        NormalizeScores([i \in DOMAIN r.distances |-> Rat(r.distances[i], 100)]),
        NormalizeScores([i \in DOMAIN r.documents |-> KeywordOverlapScore(query, r.documents[i])]),
        IF include_tfidf
        THEN NormalizeScores(ComputeTfidfScores(query, r.documents))
        ELSE [i \in DOMAIN r.documents |-> Zero])

\* Lines 160-184: the scored candidates.
ScoredCandidates(query, include_tfidf, r) ==
    Candidates(r.documents, r.metadatas,
        NormalizeScores([i \in DOMAIN r.distances |-> Rat(100 - r.distances[i], 100)]),
        NormalizeScores([i \in DOMAIN r.documents |-> KeywordOverlapScore(query, r.documents[i])]),
        IF include_tfidf
        THEN NormalizeScores(ComputeTfidfScores(query, r.documents))
        ELSE [i \in DOMAIN r.documents |-> Zero])

\* A plausible slip: each candidate is compared with its predecessor, not the anchor.
StartsNewGroupChained(c, group_start, i, epsilon) ==
    RLt(epsilon, RSub(c[i - 1].semantic_score, c[i].semantic_score))

\* Line 191: candidates[group_start].semantic_score - candidates[i].semantic_score > epsilon
StartsNewGroup(c, group_start, i, epsilon) ==
    RLt(epsilon, RSub(c[group_start].semantic_score, c[i].semantic_score))

\* A plausible slip: the tie-band is sorted by tfidf_score.
SortSliceByTfidf(c, from, to) ==
    SubSeq(c, 1, from - 1) \o SortDesc(SubSeq(c, from, to), "tfidf_score")
        \o SubSeq(c, to + 1, Len(c))

\* A plausible slip: the whole list is sorted by keyword_score, not the slice.
SortWholeList(c, from, to) == SortDesc(c, "keyword_score")

\* Lines 192-193 and 195-196: candidates[from:to] replaced by itself sorted by keyword_score.
SortSlice(c, from, to) ==
    SubSeq(c, 1, from - 1) \o SortDesc(SubSeq(c, from, to), "keyword_score")
        \o SubSeq(c, to + 1, Len(c))

RECURSIVE RerankFrom(_, _, _, _)
\* Lines 189-196: the loop at index i with the current group_start.
RerankFrom(c, group_start, i, epsilon) ==
    IF i > Len(c) THEN SortSlice(c, group_start, Len(c))
    ELSE IF StartsNewGroup(c, group_start, i, epsilon)
         THEN RerankFrom(SortSlice(c, group_start, i - 1), i, i + 1, epsilon)
         ELSE RerankFrom(c, group_start, i + 1, epsilon)

\* Lines 188-196.
TieBandRerank(c, epsilon) == IF c = <<>> THEN c ELSE RerankFrom(c, 1, 2, epsilon)

RECURSIVE GroupStartOf(_, _, _)
\* The value of group_start when the loop of lines 189-194 has passed index i.
GroupStartOf(c, i, epsilon) ==
    IF i = 1 THEN 1
    ELSE IF StartsNewGroup(c, GroupStartOf(c, i - 1, epsilon), i, epsilon)
         THEN i
         ELSE GroupStartOf(c, i - 1, epsilon)

\* A plausible slip: the accepted document id is never remembered.
SeenNever(seen_docs, doc_id, unique_citations) == seen_docs

\* A plausible slip: the id is remembered even when it is None.
SeenAlways(seen_docs, doc_id, unique_citations) ==
    IF unique_citations THEN seen_docs \cup {doc_id} ELSE seen_docs

\* Lines 205-206: seen_docs after a candidate with doc_id was accepted.
SeenAfter(seen_docs, doc_id, unique_citations) ==
    IF unique_citations /\ Truthy(doc_id) THEN seen_docs \cup {doc_id} ELSE seen_docs

\* A plausible slip: the walk stops one result late.
EnoughStrict(accepted, n_results) == accepted > n_results

\* Line 207: len(final) >= n_results, tested after the append.
Enough(accepted, n_results) == accepted >= n_results

RECURSIVE Walk(_, _, _, _, _, _)
\* Lines 198-208: the deduplication walk from position i on.
Walk(c, i, final, seen_docs, n_results, unique_citations) ==
    IF i > Len(c) THEN [exc |-> FALSE, final |-> final]
    ELSE IF IsNoneMeta(c[i].metadata) THEN [exc |-> TRUE, final |-> <<>>]
    ELSE IF unique_citations /\ GetDocumentId(c[i].metadata) \in seen_docs
         THEN Walk(c, i + 1, final, seen_docs, n_results, unique_citations)
    ELSE IF Enough(Len(final) + 1, n_results)
         THEN [exc |-> FALSE, final |-> Append(final, c[i])]
    ELSE Walk(c, i + 1, Append(final, c[i]),
              SeenAfter(seen_docs, GetDocumentId(c[i].metadata), unique_citations),
              n_results, unique_citations)

\* A plausible slip: enumerate without start=1.
RankFromZero(idx) == idx - 1

\* Line 210: enumerate(final, start=1) gives the idx-th item (1-based) the rank idx.
RankOf(idx) == idx

\* Lines 210-211.
AssignRanks(final) ==
    [i \in DOMAIN final |->
        [text           |-> final[i].text,
         metadata       |-> final[i].metadata,
         semantic_score |-> final[i].semantic_score,
         keyword_score  |-> final[i].keyword_score,
         tfidf_score    |-> final[i].tfidf_score,
         score          |-> final[i].score,
         rank           |-> RankOf(i)]] \o <<>>

\* Line 186: the candidates sorted by semantic_score, descending.
SemanticSorted(a, r) ==
    SortDesc(ScoredCandidates(a.query, a.include_tfidf, r), "semantic_score")

\* Lines 186-196: the re-ranked candidate sequence.
Reranked(a, r) == TieBandRerank(SemanticSorted(a, r), a.epsilon)

\* Lines 210-214 after the walk w.
Ranked(w) ==
    IF w.exc THEN [exc |-> TRUE, val |-> <<>>]
    ELSE [exc |-> FALSE, val |-> AssignRanks(w.final)]

\* Lines 198-214 on the re-ranked list c: [exc |-> an exception was raised, val |-> the
\* value returned].
DedupAndRank(a, c) == Ranked(Walk(c, 1, <<>>, {}, a.n_results, a.unique_citations))

\* A plausible slip: no top-level except, the exception reaches the caller.
PropagateAll(b) == [raised |-> b.exc, val |-> b.val]

\* Lines 215-217: any exception becomes the empty list.
CatchAll(b) ==
    IF b.exc THEN [raised |-> FALSE, val |-> <<>>]
    ELSE [raised |-> FALSE, val |-> b.val]

\* Lines 198-217 with the local list c.
SearchOutcome(a, c) == [candidates |-> c, ret |-> CatchAll(DedupAndRank(a, c))]

\* A plausible variant: top_k is validated first and an invalid one raises.
HybridSearchValidating(a, r) ==
    IF a.top_k <= 0 THEN [candidates |-> <<>>, ret |-> [raised |-> TRUE, val |-> <<>>]]
    ELSE IF r.raises \/ r.documents = <<>>
         THEN [candidates |-> <<>>, ret |-> [raised |-> FALSE, val |-> <<>>]]
    ELSE SearchOutcome(a, Reranked(a, r))

\* Lines 149-217: the local candidate list and what the caller of hybrid_search
\* observes, for the arguments a and the store's answer r.
HybridSearch(a, r) ==
    IF r.raises THEN [candidates |-> <<>>, ret |-> CatchAll([exc |-> TRUE, val |-> <<>>])]
    ELSE IF r.documents = <<>>
         THEN [candidates |-> <<>>, ret |-> CatchAll([exc |-> FALSE, val |-> <<>>])]
    ELSE SearchOutcome(a, Reranked(a, r))

(***************************************************************************)
(* EmbeddingService: split_text_into_chunks and its helpers.               *)
(* A string is the sequence of its characters.                             *)
(***************************************************************************)
IsSpace(ch)      == ch = " "
IsTerminator(ch) == ch \in {".", "!", "?"}
\* The characters [^\w\s.,!?;:()\-] does not match.
IsKept(ch) == ch \in {"a", "b", " ", ".", ",", "!", "?", ";", ":", "(", ")", "-"}

RECURSIVE LStrip(_)
LStrip(t) == IF t # <<>> /\ IsSpace(Head(t)) THEN LStrip(Tail(t)) ELSE t

RECURSIVE RStrip(_)
RStrip(t) ==
    IF t # <<>> /\ IsSpace(t[Len(t)]) THEN RStrip(SubSeq(t, 1, Len(t) - 1)) ELSE t

\* str.strip()
Strip(t) == RStrip(LStrip(t))

RECURSIVE CollapseSpaces(_)
\* re.sub(r'\s+', ' ', text): every run of whitespace becomes one space.
CollapseSpaces(t) ==
    IF t = <<>> THEN <<>>
    ELSE IF IsSpace(Head(t)) THEN <<" ">> \o CollapseSpaces(LStrip(t))
    ELSE <<Head(t)>> \o CollapseSpaces(Tail(t))

\* Lines 70-76.
CleanText(t) == Strip(SelectSeq(CollapseSpaces(t), IsKept))

RECURSIVE Pieces(_, _)
\* re.split on the terminators with `piece` the text since the last one.  A run of
\* terminators gives empty pieces here and one split in Python; the empty pieces are
\* dropped by the caller in both.
Pieces(t, piece) ==
    IF t = <<>> THEN <<piece>>
    ELSE IF IsTerminator(Head(t)) THEN <<piece>> \o Pieces(Tail(t), <<>>)
    ELSE Pieces(Tail(t), Append(piece, Head(t)))

NonEmpty(t) == t # <<>>

StripAll(ps) == [i \in DOMAIN ps |-> Strip(ps[i])] \o <<>>

\* Lines 78-82.
SplitIntoSentences(t) == SelectSeq(StripAll(Pieces(t, <<>>)), NonEmpty)

RECURSIVE OverlapFrom(_, _, _, _)
\* Lines 93-97: the loop over reversed(sentences), at sentence k (from the last down).
OverlapFrom(sentences, k, overlap_text, chunk_overlap) ==
    IF k = 0 THEN overlap_text
    ELSE IF Len(overlap_text) + Len(sentences[k]) <= chunk_overlap
         THEN OverlapFrom(sentences, k - 1, sentences[k] \o <<" ">> \o overlap_text,
                          chunk_overlap)
         ELSE overlap_text

\* A plausible slip: the whole closed chunk is carried over, whatever its length.
GetWholeChunk(t, chunk_overlap) == t

\* Lines 84-99.
GetOverlapText(t, chunk_overlap) ==
    IF Len(t) <= chunk_overlap THEN t
    ELSE Strip(OverlapFrom(SplitIntoSentences(t), Len(SplitIntoSentences(t)), <<>>,
                           chunk_overlap))

\* Lines 44-49 and 60-65: the chunk dictionary.
Chunk(current_chunk, chunk_index) ==
    [text        |-> Strip(current_chunk),
     chunk_index |-> chunk_index,
     start_char  |-> 0,
     end_char    |-> Len(current_chunk)]

\* A plausible slip: the index is not advanced.
SameIndex(chunk_index) == chunk_index

\* Line 50.
NextIndex(chunk_index) == chunk_index + 1

\* A plausible slip: the new chunk starts with the overlap only.
StartWithOverlapOnly(overlap_text, sentence) == overlap_text

\* Line 54.
StartNewChunk(overlap_text, sentence) == overlap_text \o <<" ">> \o sentence

\* Line 56.
Extend(current_chunk, sentence) ==
    IF current_chunk # <<>> THEN current_chunk \o <<" ">> \o sentence ELSE sentence

\* A plausible slip: the last chunk is appended without testing its content.
LastChunkAlways(out, current_chunk, chunk_index) ==
    Append(out, Chunk(current_chunk, chunk_index))

\* Lines 59-65: the last chunk is appended if it has content.
LastChunk(out, current_chunk, chunk_index) ==
    IF Strip(current_chunk) # <<>>
    THEN Append(out, Chunk(current_chunk, chunk_index))
    ELSE out

RECURSIVE ChunkLoop(_, _, _, _, _, _)
\* Lines 41-65: the loop at sentence k, then the last chunk.
ChunkLoop(sentences, k, out, current_chunk, chunk_index, c) ==
    IF k > Len(sentences)
    THEN LastChunk(out, current_chunk, chunk_index)
    ELSE IF Len(current_chunk) + Len(sentences[k]) > c.chunk_size /\ current_chunk # <<>>
         THEN ChunkLoop(sentences, k + 1,
                        Append(out, Chunk(current_chunk, chunk_index)),
                        StartNewChunk(GetOverlapText(current_chunk, c.chunk_overlap),
                                      sentences[k]),
                        NextIndex(chunk_index), c)
         ELSE ChunkLoop(sentences, k + 1, out, Extend(current_chunk, sentences[k]),
                        chunk_index, c)

\* Lines 18-68.
SplitTextIntoChunks(t, c) ==
    IF Strip(t) = <<>> THEN <<>>
    ELSE ChunkLoop(SplitIntoSentences(CleanText(t)), 1, <<>>, <<>>, 0, c)

DigitChars == <<"0", "1", "2", "3", "4", "5", "6", "7", "8", "9">>

RECURSIVE Digits(_)
\* The decimal digits of a natural number.
Digits(n) ==
    IF n < 10 THEN <<DigitChars[n + 1]>>
    ELSE Digits(n \div 10) \o <<DigitChars[(n % 10) + 1]>>

\* str(n) of an int, as the f-string formats it.
Str(n) == IF n < 0 THEN <<"-">> \o Digits(-n) ELSE Digits(n)

\* The literal "_chunk_" of the f-string.
ChunkInfix == <<"_", "c", "h", "u", "n", "k", "_">>

\* A plausible slip: the id and the index are concatenated without the infix.
CreateIdUnseparated(document_id, chunk_index) == document_id \o Str(chunk_index)

\* Lines 101-103: f"{document_id}_chunk_{chunk_index}"
CreateChunkEmbeddingId(document_id, chunk_index) ==
    document_id \o ChunkInfix \o Str(chunk_index)

(***************************************************************************)
(* The vector store as hybrid_search sees it: collection.query             *)
(***************************************************************************)
\* The longest candidate list the store answers with.
MaxCands == 3

\* Distances in hundredths.
DistGrid == {10, 11, 12}

ML  == <<"Machine", "learning">>
MLM == <<"machine", "LEARNING", "machine">>
M   == <<"machine">>
MD  == <<"machine", "deep">>
D   == <<"deep">>

\* The chunks of a collection filled by add_document_chunks: every metadata carries
\* a non-empty document_id and a chunk_index.
Corpus ==
    { [text |-> ML,  metadata |-> [document_id |-> "d1", chunk_index |-> 0]],
      [text |-> M,   metadata |-> [document_id |-> "d1", chunk_index |-> 1]],
      [text |-> MD,  metadata |-> [document_id |-> "d2", chunk_index |-> 0]],
      [text |-> D,   metadata |-> [document_id |-> "d2", chunk_index |-> 1]],
      [text |-> MLM, metadata |-> [document_id |-> "d3", chunk_index |-> 0]] }

\* A collection that also holds chunks written by other means: metadata without
\* document_id, and no metadata at all.
MalformedCorpus ==
    { [text |-> ML,  metadata |-> [document_id |-> "d1", chunk_index |-> 0]],
      [text |-> M,   metadata |-> [document_id |-> "d1", chunk_index |-> 1]],
      [text |-> M,   metadata |-> [chunk_index |-> 0]],
      [text |-> MD,  metadata |-> [chunk_index |-> 1]],
      [text |-> D,   metadata |-> NoneMeta] }

WellOrdered(s) ==
    /\ \A i, j \in DOMAIN s : i < j => s[i].chunk # s[j].chunk
    /\ \A i, j \in DOMAIN s : i < j => s[i].distance <= s[j].distance

RECURSIVE AnswersOrdered(_, _)
\* Candidate lists of length <= k over the chunks of corpus: distinct chunks,
\* ascending distance.
AnswersOrdered(corpus, k) ==
    IF k = 0 THEN {<<>>}
    ELSE LET shorter == AnswersOrdered(corpus, k - 1)
         IN  shorter \cup
             { s \in { Append(t, [chunk |-> c, distance |-> d]) :
                         t \in {u \in shorter : Len(u) = k - 1},
                         c \in corpus, d \in DistGrid } : WellOrdered(s) }

QueryFailure == [raises |-> TRUE, documents |-> <<>>, metadatas |-> <<>>, distances |-> <<>>]

QueryResult(s) ==
    [raises    |-> FALSE,
     documents |-> [i \in DOMAIN s |-> s[i].chunk.text],
     metadatas |-> [i \in DOMAIN s |-> s[i].chunk.metadata],
     distances |-> [i \in DOMAIN s |-> s[i].distance]]

Min(a, b) == IF a <= b THEN a ELSE b

\* What collection.query(n_results=top_k) may answer: it raises for a top_k that is
\* not positive, may fail for any request, and otherwise returns at most top_k
\* candidates in ascending distance.
StoreResponses(corpus, top_k) ==
    IF top_k <= 0 THEN {QueryFailure}
    ELSE {QueryFailure} \cup {QueryResult(s) : s \in AnswersOrdered(corpus, Min(top_k, MaxCands))}

\* The parameter document_ids: None, or a list of document ids.
NoDocumentIds == [is_none |-> TRUE, ids |-> <<>>]
Given(ids)    == [is_none |-> FALSE, ids |-> ids]

\* where=None: the query is not filtered.
NoWhere == [is_none |-> TRUE, in |-> {}]

\* Lines 151-153: the where clause is set only if document_ids is truthy, that is
\* neither None nor the empty list.
WhereClause(document_ids) ==
    IF ~document_ids.is_none /\ document_ids.ids # <<>>
    THEN [is_none |-> FALSE, in |-> Range(document_ids.ids)]
    ELSE NoWhere

\* The chunks of corpus that collection.query considers under the where clause.
Matching(corpus, where) ==
    IF where.is_none THEN corpus
    ELSE {c \in corpus : GetDocumentId(c.metadata) \in where.in}

Queries  == { <<"machine", "learning">> }
NResults == {0, 2, 10}
TopKs    == {-1, 2, 50}
Epsilons == { Rat(1, 50), Rat(1, 2) }

Args ==
    [query : Queries, n_results : NResults, top_k : TopKs, epsilon : Epsilons,
     include_tfidf : BOOLEAN, unique_citations : BOOLEAN, document_ids : {NoDocumentIds}]

\* The allow-lists callers pass: none, the list of a user without documents, and lists
\* of one and of two documents.
AllowLists == { NoDocumentIds, Given(<<>>), Given(<<"d1">>), Given(<<"d1", "d3">>) }

\* Calls as query_documents and post_chat_message issue them, with an allow-list.
AllowListArgs ==
    [query : Queries, n_results : {2, 10}, top_k : {50}, epsilon : {Rat(1, 50)},
     include_tfidf : BOOLEAN, unique_citations : BOOLEAN, document_ids : AllowLists]

NoArgs ==
    [query |-> <<>>, n_results |-> 0, top_k |-> 0, epsilon |-> Zero,
     include_tfidf |-> FALSE, unique_citations |-> FALSE, document_ids |-> NoDocumentIds]

NoRet == [raised |-> FALSE, val |-> <<>>]
NoCfg == [chunk_size |-> 0, chunk_overlap |-> 0]

(***************************************************************************)
(* State machine                                                           *)
(***************************************************************************)
\* No call of hybrid_search is under way.
NoSearch ==
    /\ args = NoArgs
    /\ resp = QueryFailure
    /\ candidates = <<>>
    /\ ret = NoRet
    /\ store_log = <<>>

\* No call of the other operations is under way.
NoNormalize == scores = <<>> /\ normed = <<>>
NoSplit     == text = <<>> /\ cfg = NoCfg /\ chunks = <<>>
NoEmb       == emb = [document_id |-> <<>>, chunk_index |-> 0, id |-> <<>>]
NoKw        == kw = [query |-> <<>>, doc |-> <<>>, score |-> Zero]
NoCalls     == collection = <<>> /\ calls = <<>>
NoRequest ==
    [name |-> "", valid |-> FALSE, query |-> <<>>, document_ids |-> <<>>,
     user_documents_only |-> FALSE, clerk_user_id |-> "anonymous", user_docs |-> <<>>,
     conv |-> "missing", llm_fails |-> FALSE, page |-> 0]
NoResponse == [status |-> 0, body |-> [none |-> TRUE]]
NoRows     == [messages |-> <<>>, history |-> <<>>, title |-> <<>>]
NoView     == view = NoRequest /\ response = NoResponse /\ llm_log = <<>> /\ db = NoRows
NoTfidf    == tfidf = [query |-> <<>>, docs |-> <<>>, scores |-> <<>>]
NoResult   == [answer |-> "", sources |-> <<>>, query |-> <<>>]
NoAnswer   == answer = [query |-> <<>>, context_chunks |-> <<>>, llm_fails |-> FALSE,
                        result |-> NoResult, chunk_texts |-> <<>>]
NoTables   == [documents |-> {}, chunks |-> {}]
IdleIngest == [pc |-> "idle", document_id |-> <<>>, force |-> FALSE, created |-> FALSE,
               outcome |-> "", runs |-> 0]
NoIngest   == store = {} /\ rows = NoTables /\ ing = IdleIngest /\ ops = <<>>

\* A caller is about to call hybrid_search(args), args one of argset, on a service
\* whose collection holds the chunks of corpus; resp is what collection.query will
\* answer.
InitSearchOf(corpus, argset) ==
    /\ pc = "idle"
    /\ args \in argset
    /\ resp \in StoreResponses(Matching(corpus, WhereClause(args.document_ids)), args.top_k)
    /\ candidates = <<>>
    /\ ret = NoRet
    /\ store_log = <<>>
    /\ NoNormalize /\ NoSplit /\ NoEmb /\ NoKw /\ NoCalls /\ NoView /\ NoTfidf /\ NoAnswer /\ NoIngest

InitSearch(corpus) == InitSearchOf(corpus, Args)

\* The state after hybrid_search(a) returned.
ReturnedFor(a, out) ==
    /\ store_log' = Append(store_log, [query_texts |-> <<a.query>>,
                                       n_results   |-> a.top_k,
                                       where       |-> WhereClause(a.document_ids)])
    /\ candidates' = out.candidates
    /\ ret' = out.ret

\* The state after hybrid_search(args) returned.
Returned(out) == ReturnedFor(args, out)

\* One call of hybrid_search.
HybridSearchCall ==
    /\ pc = "idle"
    /\ Returned(HybridSearch(args, resp))
    /\ pc' = "hybrid_search"
    /\ UNCHANGED <<args, resp, normVars, chunkVars, emb, kw, callVars, viewVars, tfidf, answer, ingestVars>>

Init == InitSearch(Corpus)

Next == HybridSearchCall

Spec == Init /\ [][Next]_vars

InitMalformed == InitSearch(MalformedCorpus)

SpecMalformed == InitMalformed /\ [][Next]_vars

InitAllowList == InitSearchOf(Corpus, AllowListArgs)

\* Texts that contain "machine learning", and texts that do not.
MLD == <<"machine", "learning", "deep">>
WithPhrase    == {ML, MLM, MLD}
WithoutPhrase == {D, M, MD}

\* The store's answer of the scenario: d1/chunk0 at distance 0.10, d1/chunk1 at 0.15,
\* d2/chunk0 at 0.90.
ScenarioAnswer(t10, t11, t20) ==
    << [chunk |-> [text |-> t10, metadata |-> [document_id |-> "d1", chunk_index |-> 0]],
        distance |-> 10],
       [chunk |-> [text |-> t11, metadata |-> [document_id |-> "d1", chunk_index |-> 1]],
        distance |-> 15],
       [chunk |-> [text |-> t20, metadata |-> [document_id |-> "d2", chunk_index |-> 0]],
        distance |-> 90] >>

ScenarioArgs ==
    [query : Queries, n_results : {2, 5, 10}, top_k : {3, 50}, epsilon : {Rat(1, 50)},
     include_tfidf : BOOLEAN, unique_citations : {TRUE}, document_ids : {NoDocumentIds}]

InitSearchScenario ==
    /\ pc = "idle"
    /\ args \in ScenarioArgs
    /\ resp \in {QueryResult(ScenarioAnswer(t10, t11, t20)) :
                    t10 \in WithPhrase, t11 \in WithPhrase, t20 \in WithoutPhrase}
    /\ candidates = <<>>
    /\ ret = NoRet
    /\ store_log = <<>>
    /\ NoNormalize /\ NoSplit /\ NoEmb /\ NoKw /\ NoCalls /\ NoView /\ NoTfidf /\ NoAnswer /\ NoIngest

SpecSearchScenario == InitSearchScenario /\ [][Next]_vars

SpecAllowList == InitAllowList /\ [][Next]_vars

\* Calls that return every candidate the store answered with, in re-ranked order.
RerankArgs ==
    [query : Queries, n_results : {10}, top_k : {50}, epsilon : Epsilons,
     include_tfidf : BOOLEAN, unique_citations : {FALSE}, document_ids : {NoDocumentIds}]

InitRerank == InitSearchOf(Corpus, RerankArgs)

SpecRerank == InitRerank /\ [][Next]_vars

(***************************************************************************)
(* _normalize_scores and split_text_into_chunks as one-call state machines *)
(***************************************************************************)
\* The longest score list.
MaxScores == 3

ScoreGrid == { Rat(-1, 2), Zero, Rat(1, 3), One, Rat(3, 2) }

InitNormalize ==
    /\ pc = "idle"
    /\ scores \in SeqsUpTo(ScoreGrid, MaxScores)
    /\ normed = <<>>
    /\ NoSearch /\ NoSplit /\ NoEmb /\ NoKw /\ NoCalls /\ NoView /\ NoTfidf /\ NoAnswer /\ NoIngest

NormalizeCall ==
    /\ pc = "idle"
    /\ normed' = NormalizeScores(scores)
    /\ pc' = "normalize"
    /\ UNCHANGED <<scores, searchVars, chunkVars, emb, kw, callVars, viewVars, tfidf, answer, ingestVars>>

SpecNormalize == InitNormalize /\ [][NormalizeCall]_vars

\* The longest input text, in characters.
MaxTextLen == 6

Alphabet == {"a", "b", " ", ".", "#"}

ChunkSizes    == {1, 3}
ChunkOverlaps == {0, 1}

InitChunker ==
    /\ pc = "idle"
    /\ text \in SeqsUpTo(Alphabet, MaxTextLen)
    /\ cfg \in [chunk_size : ChunkSizes, chunk_overlap : ChunkOverlaps]
    /\ chunks = <<>>
    /\ NoSearch /\ NoNormalize /\ NoEmb /\ NoKw /\ NoCalls /\ NoView /\ NoTfidf /\ NoAnswer /\ NoIngest

SplitCall ==
    /\ pc = "idle"
    /\ chunks' = SplitTextIntoChunks(text, cfg)
    /\ pc' = "split"
    /\ UNCHANGED <<normVars, searchVars, text, cfg, emb, kw, callVars, viewVars, tfidf, answer, ingestVars>>

SpecChunker == InitChunker /\ [][SplitCall]_vars

\* A sentence of n letters.
Letters(n) == [i \in 1..n |-> "a"]

RECURSIVE ScenarioText(_)
\* The text whose sentences have the lengths ls: each ends with a full stop and is
\* separated from the next by one space.
ScenarioText(ls) ==
    IF Len(ls) = 1 THEN Letters(ls[1]) \o <<".">>
    ELSE Letters(ls[1]) \o <<".", " ">> \o ScenarioText(Tail(ls))

ScenarioLengths == {10, 24, 25, 35, 40, 50}

\* Texts of two or three sentences.
ScenarioTexts ==
    {ScenarioText(ls) : ls \in [1..2 -> ScenarioLengths] \cup [1..3 -> ScenarioLengths]}

\* EmbeddingService(chunk_size=50, chunk_overlap=10)
ScenarioCfg == [chunk_size |-> 50, chunk_overlap |-> 10]

InitScenario ==
    /\ pc = "idle"
    /\ text \in ScenarioTexts
    /\ cfg = ScenarioCfg
    /\ chunks = <<>>
    /\ NoSearch /\ NoNormalize /\ NoEmb /\ NoKw /\ NoCalls /\ NoView /\ NoTfidf /\ NoAnswer /\ NoIngest

\* The chunker on short texts under small configurations and on the scenario texts
\* under chunk_size=50, chunk_overlap=10.
SpecChunkerScenario == (InitChunker \/ InitScenario) /\ [][SplitCall]_vars

(***************************************************************************)
(* create_chunk_embedding_id as a one-call state machine                   *)
(***************************************************************************)
\* The most fragments a document id is made of.
MaxIdParts == 2

IdFragments == { <<"a">>, <<"_">>, <<"1">>, <<"c", "h", "u", "n", "k">>, ChunkInfix }

RECURSIVE Concat(_)
Concat(ps) == IF ps = <<>> THEN <<>> ELSE Head(ps) \o Concat(Tail(ps))

DocumentIds  == {Concat(ps) : ps \in SeqsUpTo(IdFragments, MaxIdParts)}
ChunkIndexes == {0, 1, 10, 12}

InitEmbeddingId ==
    /\ pc = "idle"
    /\ emb \in [document_id : DocumentIds, chunk_index : ChunkIndexes, id : {<<>>}]
    /\ NoSearch /\ NoNormalize /\ NoSplit /\ NoKw /\ NoCalls /\ NoView /\ NoTfidf /\ NoAnswer /\ NoIngest

CreateIdCall ==
    /\ pc = "idle"
    /\ emb' = [emb EXCEPT !.id = CreateChunkEmbeddingId(emb.document_id, emb.chunk_index)]
    /\ pc' = "create_id"
    /\ UNCHANGED <<normVars, searchVars, chunkVars, kw, callVars, viewVars, tfidf, answer, ingestVars>>

SpecEmbeddingId == InitEmbeddingId /\ [][CreateIdCall]_vars

(***************************************************************************)
(* _keyword_overlap_score as a one-call state machine                      *)
(***************************************************************************)
\* The most words of a query and of a document.
MaxWords == 3

KwWords == {"Machine", "machine", "LEARNING", "deep"}

InitKeyword ==
    /\ pc = "idle"
    /\ kw \in [query : SeqsUpTo(KwWords, MaxWords), doc : SeqsUpTo(KwWords, MaxWords),
               score : {Zero}]
    /\ NoSearch /\ NoNormalize /\ NoSplit /\ NoEmb /\ NoCalls /\ NoView /\ NoTfidf /\ NoAnswer /\ NoIngest

KeywordScoreCall ==
    /\ pc = "idle"
    /\ kw' = [kw EXCEPT !.score = KeywordOverlapScore(kw.query, kw.doc)]
    /\ pc' = "keyword_score"
    /\ UNCHANGED <<normVars, searchVars, chunkVars, emb, callVars, viewVars, tfidf, answer, ingestVars>>

SpecKeyword == InitKeyword /\ [][KeywordScoreCall]_vars

(***************************************************************************)
(* Concurrent hybrid_search calls on the one ChromaDBService of views.py   *)
(***************************************************************************)
\* The most chunks the collection holds.
MaxStored == 2

\* The request threads that call hybrid_search on the shared service.
Callers == {"t1", "t2"}

CallArgs ==
    [query : Queries, n_results : {10}, top_k : {1, 50}, epsilon : {Rat(1, 50)},
     include_tfidf : {FALSE}, unique_citations : BOOLEAN, document_ids : {NoDocumentIds}]

\* The local variables of a call that has not started.
NewCall(a) ==
    [pc |-> "start", args |-> a, results |-> QueryFailure, candidates |-> <<>>, ret |-> NoRet]

\* collection.query on the contents coll, a list of chunks with their distance to the
\* query in ascending order: the first top_k entries the where clause admits.
Admitted(e, where) == where.is_none \/ GetDocumentId(e.chunk.metadata) \in where.in

RECURSIVE Filtered(_, _)
Filtered(coll, where) ==
    IF coll = <<>> THEN <<>>
    ELSE IF Admitted(Head(coll), where) THEN <<Head(coll)>> \o Filtered(Tail(coll), where)
    ELSE Filtered(Tail(coll), where)

StoreQuery(coll, where, top_k) ==
    IF top_k <= 0 THEN QueryFailure
    ELSE QueryResult(SubSeq(Filtered(coll, where), 1, Min(top_k, Len(Filtered(coll, where)))))

\* A plausible slip: the candidate list is kept in a field of the service, which all
\* callers share.
SetShared(cs, p, new) ==
    [q \in DOMAIN cs |->
        IF q = p THEN new ELSE [cs[q] EXCEPT !.candidates = new.candidates]]

\* The locals of caller p become new; every variable of hybrid_search is a local of
\* the call (lines 151-211 assign no attribute of self).
SetLocal(cs, p, new) == [cs EXCEPT ![p] = new]

InitConcurrent ==
    /\ pc = "idle"
    /\ collection \in AnswersOrdered(Corpus, MaxStored)
    /\ calls \in {[p \in Callers |-> NewCall(f[p])] : f \in [Callers -> CallArgs]}
    /\ NoSearch /\ NoNormalize /\ NoSplit /\ NoEmb /\ NoKw /\ NoView /\ NoTfidf /\ NoAnswer /\ NoIngest

\* Lines 151-158: the store is queried; a failure or an empty answer returns [].
QueryStep(p) ==
    /\ calls[p].pc = "start"
    /\ LET r == StoreQuery(collection, WhereClause(calls[p].args.document_ids),
                           calls[p].args.top_k)
       IN  calls' = SetLocal(calls, p,
                [calls[p] EXCEPT !.results = r,
                                 !.pc = IF r.raises \/ r.documents = <<>>
                                        THEN "returned" ELSE "queried"])
    /\ UNCHANGED <<pc, collection, normVars, searchVars, chunkVars, emb, kw, viewVars, tfidf, answer, ingestVars>>

\* Lines 160-184.
ScoreStep(p) ==
    /\ calls[p].pc = "queried"
    /\ calls' = SetLocal(calls, p,
           [calls[p] EXCEPT !.candidates = ScoredCandidates(calls[p].args.query,
                                               calls[p].args.include_tfidf, calls[p].results),
                            !.pc = "scored"])
    /\ UNCHANGED <<pc, collection, normVars, searchVars, chunkVars, emb, kw, viewVars, tfidf, answer, ingestVars>>

\* Lines 186-196.
RerankStep(p) ==
    /\ calls[p].pc = "scored"
    /\ calls' = SetLocal(calls, p,
           [calls[p] EXCEPT !.candidates = TieBandRerank(SortDesc(calls[p].candidates,
                                                                   "semantic_score"),
                                                          calls[p].args.epsilon),
                            !.pc = "reranked"])
    /\ UNCHANGED <<pc, collection, normVars, searchVars, chunkVars, emb, kw, viewVars, tfidf, answer, ingestVars>>

\* Lines 198-217.
ReturnStep(p) ==
    /\ calls[p].pc = "reranked"
    /\ calls' = SetLocal(calls, p,
           [calls[p] EXCEPT !.ret = CatchAll(DedupAndRank(calls[p].args, calls[p].candidates)),
                            !.pc = "returned"])
    /\ UNCHANGED <<pc, collection, normVars, searchVars, chunkVars, emb, kw, viewVars, tfidf, answer, ingestVars>>

NextConcurrent ==
    \E p \in Callers : QueryStep(p) \/ ScoreStep(p) \/ RerankStep(p) \/ ReturnStep(p)

SpecConcurrent == InitConcurrent /\ [][NextConcurrent]_vars

(***************************************************************************)
(* The views query_documents and post_chat_message (documents/views.py)    *)
(***************************************************************************)
\* The longest candidate list the store answers a view's search with.
MaxViewCands == 1

NoInfoQuery == "I couldn't find relevant information to answer your question."
NoInfoChat  ==
    "I couldn't find relevant information to answer your question from the indexed PDFs."
LlmError    ==
    "I'm sorry, I encountered an error while processing your query. Please try again."
Generated   == "<response.text of the model>"

\* views.py 122-130 and 473-481: the arguments both views pass to hybrid_search.
ViewArgs(query, document_ids) ==
    [query |-> query, n_results |-> 5, top_k |-> 50, epsilon |-> Rat(1, 50),
     include_tfidf |-> TRUE, document_ids |-> document_ids, unique_citations |-> TRUE]

SignedIn(v) == v.clerk_user_id # "anonymous"

\* views.py 102-119: document_ids of query_documents.
QueryDocumentIds(v) ==
    IF v.user_documents_only /\ SignedIn(v) THEN Given(v.user_docs)
    ELSE IF v.document_ids # <<>> THEN Given(v.document_ids)
    ELSE NoDocumentIds

\* views.py 461-471: document_ids of post_chat_message.
ChatDocumentIds(v) ==
    IF v.user_documents_only /\ SignedIn(v) THEN Given(v.user_docs) ELSE NoDocumentIds

DocumentIdsOf(v) ==
    IF v.name = "query_documents" THEN QueryDocumentIds(v) ELSE ChatDocumentIds(v)

\* gemini_service.py 145: the length a preview is cut to.
PreviewLen == 200

Ellipsis == <<".", ".", ".">>

\* A plausible slip: a text of exactly 200 characters is cut too.
TextPreviewAtLimit(chunk_text) ==
    IF Len(chunk_text) >= PreviewLen THEN SubSeq(chunk_text, 1, PreviewLen) \o Ellipsis
    ELSE chunk_text

\* gemini_service.py 145: chunk['text'][:200] + "..." if len(chunk['text']) > 200 else chunk['text']
TextPreview(chunk_text) ==
    IF Len(chunk_text) > PreviewLen THEN SubSeq(chunk_text, 1, PreviewLen) \o Ellipsis
    ELSE chunk_text

\* gemini_service.py 138-146: one source per context chunk.
SourcesOf(context_chunks) ==
    [i \in DOMAIN context_chunks |->
        [document_id  |-> context_chunks[i].metadata.document_id,
         chunk_index  |-> context_chunks[i].metadata.chunk_index,
         score        |-> context_chunks[i].score,
         text_preview |-> TextPreview(context_chunks[i].text)]]

\* views.py 157-159: the positions of the results with the source's document_id and
\* chunk_index.
MatchesOf(similar_chunks, src) ==
    {i \in DOMAIN similar_chunks :
        /\ similar_chunks[i].metadata.document_id = src.document_id
        /\ similar_chunks[i].metadata.chunk_index = src.chunk_index}

\* views.py 157-160: the text handed to find_text_pages: that of the first matching
\* result, else the preview.
ChunkText(similar_chunks, src) ==
    IF MatchesOf(similar_chunks, src) # {}
    THEN similar_chunks[CHOOSE i \in MatchesOf(similar_chunks, src) :
                            \A j \in MatchesOf(similar_chunks, src) : i <= j].text
    ELSE src.text_preview

\* gemini_service.py 100-160: search_and_answer; a failure of the model is caught and
\* answered with an apology and no sources.
SearchAndAnswer(query, context_chunks, llm_fails) ==
    IF llm_fails THEN [answer |-> LlmError, sources |-> <<>>, query |-> query]
    ELSE [answer |-> Generated, sources |-> SourcesOf(context_chunks), query |-> query]

\* views.py 141-168 and 501-524: every source gets the page find_text_pages found.
Augmented(sources, page) ==
    [i \in DOMAIN sources |->
        [document_id  |-> sources[i].document_id,
         chunk_index  |-> sources[i].chunk_index,
         score        |-> sources[i].score,
         text_preview |-> sources[i].text_preview,
         page         |-> page]]

ChunkDocumentIds(context_chunks) == [i \in DOMAIN context_chunks |-> context_chunks[i].metadata.document_id]

\* A plausible slip: the test for an empty result is missing.
NeverEmpty(similar_chunks) == FALSE

\* views.py 132 and 483: `if not similar_chunks`
IsEmptyResult(similar_chunks) == similar_chunks = <<>>

\* views.py 536-538: the conversation gets a title if it has none.
TitleAfter(title, content) == IF title = <<>> THEN content ELSE title

Failed(message) == [status |-> 500, body |-> [error |-> message]]

\* views.py 122-189 of query_documents, after hybrid_search(a) gave out.
AnswerQuery(a, out, result) ==
    /\ args' = a
    /\ ReturnedFor(a, out)
    /\ IF out.ret.raised
       THEN response' = Failed("Failed to process query") /\ UNCHANGED <<llm_log, db>>
       ELSE IF IsEmptyResult(out.ret.val)
       THEN /\ response' = [status |-> 200,
                            body |-> [response |-> NoInfoQuery, sources |-> <<>>]]
            /\ UNCHANGED <<llm_log, db>>
       ELSE /\ llm_log' = Append(llm_log, [query |-> a.query, context_chunks |-> out.ret.val])
            /\ db' = [db EXCEPT !.history =
                         Append(@, [clerk_user_id |-> view.clerk_user_id,
                                    query         |-> a.query,
                                    response      |-> result.answer,
                                    document_ids  |-> ChunkDocumentIds(out.ret.val)])]
            /\ response' = [status |-> 200,
                            body |-> [answer  |-> result.answer,
                                      sources |-> Augmented(result.sources, view.page),
                                      query   |-> a.query]]

\* views.py 92-189.
QueryDocuments ==
    /\ pc = "idle" /\ view.name = "query_documents"
    /\ pc' = "query_documents"
    /\ IF ~view.valid
       THEN /\ response' = [status |-> 400, body |-> [query |-> "This field is required."]]
            /\ UNCHANGED <<args, candidates, ret, store_log, llm_log, db>>
       ELSE AnswerQuery(ViewArgs(view.query, QueryDocumentIds(view)),
                        HybridSearch(ViewArgs(view.query, QueryDocumentIds(view)), resp),
                        SearchAndAnswer(view.query,
                            HybridSearch(ViewArgs(view.query, QueryDocumentIds(view)), resp).ret.val,
                            view.llm_fails))
    /\ UNCHANGED <<resp, view, normVars, chunkVars, emb, kw, callVars, tfidf, answer, ingestVars>>

UserMessage(content) ==
    [role |-> "user", content |-> content, citations |-> <<>>, document_ids |-> <<>>]

AssistantMessage(content, citations, document_ids) ==
    [role |-> "assistant", content |-> content, citations |-> citations,
     document_ids |-> document_ids]

\* views.py 456-543 of post_chat_message, after hybrid_search(a) gave out.
AnswerChat(a, out, result) ==
    /\ args' = a
    /\ ReturnedFor(a, out)
    /\ IF out.ret.raised
       THEN /\ response' = Failed("Failed to process message")
            /\ db' = [db EXCEPT !.messages = Append(@, UserMessage(a.query))]
            /\ UNCHANGED llm_log
       ELSE IF IsEmptyResult(out.ret.val)
       THEN /\ db' = [db EXCEPT
                        !.messages = @ \o <<UserMessage(a.query),
                                            AssistantMessage(NoInfoChat, <<>>, <<>>)>>,
                        !.title = TitleAfter(@, a.query)]
            /\ response' = [status |-> 200, body |-> [answer |-> NoInfoChat, sources |-> <<>>]]
            /\ UNCHANGED llm_log
       ELSE /\ llm_log' = Append(llm_log, [query |-> a.query, context_chunks |-> out.ret.val])
            /\ db' = [db EXCEPT
                        !.messages = @ \o <<UserMessage(a.query),
                                            AssistantMessage(result.answer,
                                                Augmented(result.sources, view.page),
                                                ChunkDocumentIds(out.ret.val))>>,
                        !.title = TitleAfter(@, a.query)]
            /\ response' = [status |-> 200,
                            body |-> [answer  |-> result.answer,
                                      sources |-> Augmented(result.sources, view.page)]]

\* views.py 444-543.  get_object_or_404 raises Http404 inside the try block, which the
\* handler's `except Exception` turns into the 500 response.
PostChatMessage ==
    /\ pc = "idle" /\ view.name = "post_chat_message"
    /\ pc' = "post_chat_message"
    /\ IF view.conv = "missing"
       THEN /\ response' = Failed("Failed to process message")
            /\ UNCHANGED <<args, candidates, ret, store_log, llm_log, db>>
       ELSE IF view.conv # view.clerk_user_id
       THEN /\ response' = [status |-> 403, body |-> [error |-> "Forbidden"]]
            /\ UNCHANGED <<args, candidates, ret, store_log, llm_log, db>>
       ELSE IF ~view.valid
       THEN /\ response' = [status |-> 400, body |-> [error |-> "Content is required"]]
            /\ UNCHANGED <<args, candidates, ret, store_log, llm_log, db>>
       ELSE AnswerChat(ViewArgs(view.query, ChatDocumentIds(view)),
                       HybridSearch(ViewArgs(view.query, ChatDocumentIds(view)), resp),
                       SearchAndAnswer(view.query,
                           HybridSearch(ViewArgs(view.query, ChatDocumentIds(view)), resp).ret.val,
                           view.llm_fails))
    /\ UNCHANGED <<resp, view, normVars, chunkVars, emb, kw, callVars, tfidf, answer, ingestVars>>

\* The requests: for query_documents the conversation plays no part, for
\* post_chat_message the request carries no document_ids.
QueryRequests ==
    [name : {"query_documents"}, valid : BOOLEAN, query : Queries,
     document_ids : {<<>>, <<"d1">>}, user_documents_only : BOOLEAN,
     clerk_user_id : {"anonymous", "u1"}, user_docs : {<<>>, <<"d2">>},
     conv : {"u1"}, llm_fails : BOOLEAN, page : {0, 1}]

ChatRequests ==
    [name : {"post_chat_message"}, valid : BOOLEAN, query : Queries,
     document_ids : {<<>>}, user_documents_only : BOOLEAN,
     clerk_user_id : {"anonymous", "u1"}, user_docs : {<<>>, <<"d2">>},
     conv : {"missing", "anonymous", "u1"}, llm_fails : BOOLEAN, page : {0, 1}]

\* What collection.query(n_results=50) may answer a view's search.
ViewResponses(corpus) ==
    {QueryFailure} \cup {QueryResult(s) : s \in AnswersOrdered(corpus, MaxViewCands)}

InitViews ==
    /\ pc = "idle"
    /\ view \in QueryRequests \cup ChatRequests
    /\ resp \in ViewResponses(Matching(Corpus, WhereClause(DocumentIdsOf(view))))
    /\ args = NoArgs /\ candidates = <<>> /\ ret = NoRet /\ store_log = <<>>
    /\ response = NoResponse /\ llm_log = <<>>
    /\ db \in {[NoRows EXCEPT !.title = t] : t \in {<<>>, <<"old">>}}
    /\ NoNormalize /\ NoSplit /\ NoEmb /\ NoKw /\ NoCalls
    /\ NoTfidf /\ NoAnswer /\ NoIngest

NextViews == QueryDocuments \/ PostChatMessage

SpecViews == InitViews /\ [][NextViews]_vars

(***************************************************************************)
(* One call of _compute_tfidf_scores(query, docs).                         *)
(***************************************************************************)
MaxDocs   == 2
MaxTokens == 2

TfWords   == {"Machine", "machine", "deep"}

TfQueries == { <<>>, <<"machine">>, <<"Machine", "deep">>, <<"LEARNING">> }

InitTfidf ==
    /\ pc = "idle"
    /\ tfidf \in [query : TfQueries, docs : SeqsUpTo(SeqsUpTo(TfWords, MaxTokens), MaxDocs),
                  scores : {<<>>}]
    /\ NoSearch /\ NoNormalize /\ NoSplit /\ NoEmb /\ NoKw /\ NoCalls /\ NoView
    /\ NoAnswer /\ NoIngest

ComputeTfidfCall ==
    /\ pc = "idle"
    /\ tfidf' = [tfidf EXCEPT !.scores = ComputeTfidfScores(tfidf.query, tfidf.docs)]
    /\ pc' = "compute_tfidf"
    /\ UNCHANGED <<normVars, searchVars, chunkVars, emb, kw, callVars, viewVars, answer,
                   ingestVars>>

SpecTfidf == InitTfidf /\ [][ComputeTfidfCall]_vars

(***************************************************************************)
(* The collection's contents: add_document_chunks, delete_document_chunks, *)
(* and their callers ingest_pdfs, upload_pdf and delete_document.          *)
(* An entry of the collection is [id, document, metadata]; a DocumentChunk *)
(* row is [document_id, chunk_index, text, embedding_id].                  *)
(***************************************************************************)
\* The literal "_chunk_" of the f-string of chromadb_service.py line 60.
StoreInfix == <<"_", "c", "h", "u", "n", "k", "_">>

\* A plausible slip: the store's id is built from the chunk's position, from 1.
StoreChunkIdOneBased(document_id, chunk) ==
    document_id \o StoreInfix \o Str(chunk.chunk_index + 1)

\* chromadb_service.py line 60: f"{document_id}_chunk_{chunk['chunk_index']}"
StoreChunkId(document_id, chunk) == document_id \o StoreInfix \o Str(chunk.chunk_index)

\* chromadb_service.py lines 59-68: the id, text and metadata of one chunk.
StoreEntry(document_id, chunk) ==
    [id       |-> StoreChunkId(document_id, chunk),
     document |-> chunk.text,
     metadata |-> [document_id |-> document_id,
                   chunk_index |-> chunk.chunk_index,
                   start_char  |-> chunk.start_char,
                   end_char    |-> chunk.end_char]]

IdsOf(coll) == {e.id : e \in coll}

\* collection.add(ids, documents, metadatas): [coll |-> the contents after, raised].
\* It raises when the store fails and when two of the given ids are equal; for an id
\* the collection already holds, the library either raises or leaves the old entry.
CollectionAdd(coll, entries, fails, dup_raises) ==
    IF fails \/ \E i, j \in DOMAIN entries : i # j /\ entries[i].id = entries[j].id
    THEN [coll |-> coll, raised |-> TRUE]
    ELSE IF dup_raises /\ \E i \in DOMAIN entries : entries[i].id \in IdsOf(coll)
    THEN [coll |-> coll, raised |-> TRUE]
    ELSE [coll   |-> coll \cup {entries[i] : i \in {k \in DOMAIN entries :
                                                   entries[k].id \notin IdsOf(coll)}},
          raised |-> FALSE]

\* chromadb_service.py lines 77-82: True after collection.add, False when it raised;
\* the exception does not reach the caller.
AddReturn(added) == [coll |-> added.coll, ret |-> ~added.raised, raised |-> FALSE]

\* chromadb_service.py lines 48-82: [coll |-> the contents after, ret |-> the boolean,
\* raised |-> an exception reached the caller].
AddDocumentChunks(coll, document_id, cs, fails, dup_raises) ==
    IF cs = <<>> THEN [coll |-> coll, ret |-> FALSE, raised |-> FALSE]
    ELSE AddReturn(CollectionAdd(coll, [i \in DOMAIN cs |-> StoreEntry(document_id, cs[i])],
                                 fails, dup_raises))

\* A plausible slip: the where clause is missing and every id is found.
GetAllIds(coll, document_id) == IdsOf(coll)

\* chromadb_service.py lines 124-126: collection.get(where={"document_id": document_id})['ids']
GetIdsWhere(coll, document_id) == {e.id : e \in {x \in coll : x.metadata.document_id = document_id}}

\* chromadb_service.py lines 121-136: [coll |-> the contents after, ret |-> the boolean,
\* raised |-> an exception reached the caller]; a failure of the store is caught.
DeleteDocumentChunks(coll, document_id, fails) ==
    IF fails THEN [coll |-> coll, ret |-> FALSE, raised |-> FALSE]
    ELSE IF GetIdsWhere(coll, document_id) # {}
         THEN [coll   |-> {e \in coll : e.id \notin GetIdsWhere(coll, document_id)},
               ret    |-> TRUE,
               raised |-> FALSE]
         ELSE [coll |-> coll, ret |-> TRUE, raised |-> FALSE]

\* ingest_pdfs.py lines 113-121: the DocumentChunk row of a chunk.
ChunkRow(document_id, chunk) ==
    [document_id  |-> document_id,
     chunk_index  |-> chunk.chunk_index,
     text         |-> chunk.text,
     embedding_id |-> CreateChunkEmbeddingId(document_id, chunk.chunk_index)]

\* models.py lines 34 and 39: embedding_id is unique, and so is (document, chunk_index).
Conflicts(chunk_rows, r) ==
    \E x \in chunk_rows :
        \/ x.embedding_id = r.embedding_id
        \/ x.document_id = r.document_id /\ x.chunk_index = r.chunk_index

RECURSIVE CreateRows(_, _, _, _)
\* ingest_pdfs.py lines 112-122: the rows are created one by one; a row that breaks a
\* uniqueness constraint raises, and the rows created before it stay.
CreateRows(chunk_rows, document_id, cs, i) ==
    IF i > Len(cs) THEN [chunks |-> chunk_rows, raised |-> FALSE]
    ELSE IF Conflicts(chunk_rows, ChunkRow(document_id, cs[i]))
         THEN [chunks |-> chunk_rows, raised |-> TRUE]
         ELSE CreateRows(chunk_rows \cup {ChunkRow(document_id, cs[i])}, document_id, cs, i + 1)

\* DocumentChunk.objects.filter(document=document).delete()
WithoutRowsOf(chunk_rows, document_id) == {x \in chunk_rows : x.document_id # document_id}

\* The PDF files: the id is the hash of the content, so a file always has the same
\* text and the same chunks, whose indexes split_text_into_chunks numbers from 0.
MaxRuns == 4

D1 == <<"d", "1">>
D2 == <<"d", "2">>
D3 == <<"d", "3">>
D4 == <<"d", "4">>

Files ==
    { [id |-> D1, has_text |-> TRUE,
       chunks |-> <<Chunk(<<"a">>, 0), Chunk(<<"b", "c">>, 1)>>],
      [id |-> D2, has_text |-> TRUE, chunks |-> <<Chunk(<<"a">>, 0)>>],
      [id |-> D3, has_text |-> TRUE, chunks |-> <<>>],
      [id |-> D4, has_text |-> FALSE, chunks |-> <<>>] }

FileOf(document_id) == CHOOSE f \in Files : f.id = document_id

\* One call on the collection or on the chunk table: who made it, whether the store
\* failed in it, what it returned or raised, and the contents before and after.
Op(caller, op, document_id, fails, out, before) ==
    [caller |-> caller, op |-> op, document_id |-> document_id, store_fails |-> fails,
     ok |-> out.ret, raised |-> out.raised, before |-> before, after |-> out.coll]

\* The outcome of a call on the chunk table, in the same shape.
TableOutcome(chunk_rows, raised) == [coll |-> chunk_rows, ret |-> ~raised, raised |-> raised]

Finished(outcome) ==
    [IdleIngest EXCEPT !.outcome = outcome, !.document_id = ing.document_id,
                       !.force = ing.force, !.created = ing.created, !.runs = ing.runs]

IngestFrame ==
    UNCHANGED <<normVars, searchVars, chunkVars, emb, kw, callVars, viewVars, tfidf, answer>>

InitIngest ==
    /\ pc = "idle"
    /\ store = {} /\ rows = NoTables /\ ing = IdleIngest /\ ops = <<>>
    /\ NoSearch /\ NoNormalize /\ NoSplit /\ NoEmb /\ NoKw /\ NoCalls /\ NoView
    /\ NoTfidf /\ NoAnswer

\* views.py lines 626-655: upload_pdf records the document; the ingestion it starts
\* with --document-id is rejected by the command, which has no such option.
UploadPdf ==
    \E f \in Files :
        /\ ing.pc = "idle" /\ ing.runs < MaxRuns
        /\ f.id \notin rows.documents /\ f.has_text
        /\ rows' = [rows EXCEPT !.documents = @ \cup {f.id}]
        /\ ing' = [IdleIngest EXCEPT !.outcome = "uploaded", !.document_id = f.id,
                                     !.runs = ing.runs + 1]
        /\ pc' = "upload_pdf"
        /\ UNCHANGED <<store, ops>>
        /\ IngestFrame

\* views.py lines 734-760: delete_document removes the chunk rows, asks the store to
\* delete the chunks, whatever the outcome, and removes the document.
DeleteDocument ==
    \E d \in rows.documents, fails \in BOOLEAN :
        /\ ing.pc = "idle" /\ ing.runs < MaxRuns
        /\ store' = DeleteDocumentChunks(store, d, fails).coll
        /\ rows' = [documents |-> rows.documents \ {d},
                    chunks    |-> WithoutRowsOf(rows.chunks, d)]
        /\ ops' = ops \o
              << Op("delete_document", "db_delete", d, FALSE,
                    TableOutcome(WithoutRowsOf(rows.chunks, d), FALSE), rows.chunks),
                 Op("delete_document", "store_delete", d, fails,
                    DeleteDocumentChunks(store, d, fails), store) >>
        /\ ing' = [IdleIngest EXCEPT !.outcome = "deleted", !.document_id = d,
                                     !.runs = ing.runs + 1]
        /\ pc' = "delete_document"
        /\ IngestFrame

\* ingest_pdfs.py lines 62-89: the id, the skip of a known document, the text, and
\* get_or_create.
IngestBegin ==
    \E f \in Files, force \in BOOLEAN :
        /\ ing.pc = "idle" /\ ing.runs < MaxRuns
        /\ pc' = "ingest_begin"
        /\ IngestFrame
        /\ UNCHANGED <<store, ops>>
        /\ IF ~force /\ f.id \in rows.documents
           THEN /\ ing' = [IdleIngest EXCEPT !.outcome = "skipped", !.document_id = f.id,
                                             !.force = force, !.runs = ing.runs + 1]
                /\ UNCHANGED rows
           ELSE IF ~f.has_text
           THEN /\ ing' = [IdleIngest EXCEPT !.outcome = "no_text", !.document_id = f.id,
                                             !.force = force, !.runs = ing.runs + 1]
                /\ UNCHANGED rows
           ELSE /\ ing' = [pc |-> "have_document", document_id |-> f.id, force |-> force,
                           created |-> f.id \notin rows.documents, outcome |-> "",
                           runs |-> ing.runs + 1]
                /\ rows' = [rows EXCEPT !.documents = @ \cup {f.id}]

\* A plausible slip: the existing chunks are never deleted.
NeverReset(created, force) == FALSE

\* ingest_pdfs.py line 91: `if not created and force`
ShouldReset(created, force) == ~created /\ force

\* ingest_pdfs.py lines 91-100: the chunks of an existing document are deleted from
\* the database and from the store; what the store's delete returns is not looked at.
IngestReset ==
    /\ ing.pc = "have_document"
    /\ pc' = "ingest_reset"
    /\ IngestFrame
    /\ ing' = [ing EXCEPT !.pc = "reset_done"]
    /\ IF ShouldReset(ing.created, ing.force)
       THEN \E fails \in BOOLEAN :
              /\ rows' = [rows EXCEPT !.chunks = WithoutRowsOf(@, ing.document_id)]
              /\ store' = DeleteDocumentChunks(store, ing.document_id, fails).coll
              /\ ops' = ops \o
                    << Op("ingest_pdfs", "db_delete", ing.document_id, FALSE,
                          TableOutcome(WithoutRowsOf(rows.chunks, ing.document_id), FALSE),
                          rows.chunks),
                       Op("ingest_pdfs", "store_delete", ing.document_id, fails,
                          DeleteDocumentChunks(store, ing.document_id, fails), store) >>
       ELSE UNCHANGED <<rows, store, ops>>

\* ingest_pdfs.py lines 103-122: the text is split and a row is created per chunk; an
\* exception ends the file (lines 132-137).
IngestChunks ==
    /\ ing.pc = "reset_done"
    /\ pc' = "ingest_chunks"
    /\ IngestFrame
    /\ UNCHANGED store
    /\ IF FileOf(ing.document_id).chunks = <<>>
       THEN ing' = Finished("no_chunks") /\ UNCHANGED <<rows, ops>>
       ELSE /\ rows' = [rows EXCEPT !.chunks =
                           CreateRows(@, ing.document_id, FileOf(ing.document_id).chunks, 1).chunks]
            /\ ops' = Append(ops,
                   Op("ingest_pdfs", "db_create", ing.document_id, FALSE,
                      TableOutcome(
                          CreateRows(rows.chunks, ing.document_id,
                                     FileOf(ing.document_id).chunks, 1).chunks,
                          CreateRows(rows.chunks, ing.document_id,
                                     FileOf(ing.document_id).chunks, 1).raised),
                      rows.chunks))
            /\ ing' = IF CreateRows(rows.chunks, ing.document_id,
                                    FileOf(ing.document_id).chunks, 1).raised
                      THEN Finished("error")
                      ELSE [ing EXCEPT !.pc = "rows_created"]

\* ingest_pdfs.py lines 124-127: the chunks are added to the store and the file is
\* counted as processed; what add_document_chunks returns is not looked at.
IngestAdd ==
    \E fails \in BOOLEAN, dup_raises \in BOOLEAN :
        /\ ing.pc = "rows_created"
        /\ pc' = "ingest_add"
        /\ IngestFrame
        /\ dup_raises => GetIdsWhere(store, ing.document_id) # {}
        /\ store' = AddDocumentChunks(store, ing.document_id,
                                      FileOf(ing.document_id).chunks, fails, dup_raises).coll
        /\ ops' = Append(ops,
               Op("ingest_pdfs", "store_add", ing.document_id, fails,
                  AddDocumentChunks(store, ing.document_id,
                                    FileOf(ing.document_id).chunks, fails, dup_raises),
                  store))
        /\ ing' = Finished("processed")
        /\ UNCHANGED rows

NextIngest ==
    UploadPdf \/ DeleteDocument \/ IngestBegin \/ IngestReset \/ IngestChunks \/ IngestAdd

SpecIngest == InitIngest /\ [][NextIngest]_vars

(***************************************************************************)
(* One call of search_and_answer(query, context_chunks) and the page       *)
(* lookup of its caller.  A chunk's text is the sequence of its characters.*)
(***************************************************************************)
MaxSources == 2

\* Texts of 3, 200, 201 and 250 characters; the longer ones differ after the cut.
AnswerTexts ==
    { Letters(3), Letters(PreviewLen), Letters(PreviewLen) \o <<"b">>,
      Letters(PreviewLen) \o [i \in 1..50 |-> "c"] }

\* Ranked results as hybrid_search returns them.
AnswerChunks ==
    [text : AnswerTexts,
     metadata : [document_id : {"d1", "d2"}, chunk_index : {0, 1}],
     score : {One, Rat(1, 2)}]

\* Results of distinct chunks: the store holds one entry per document and index.
DistinctChunks(cs) ==
    \A i, j \in DOMAIN cs : i # j => cs[i].metadata # cs[j].metadata

InitAnswer ==
    /\ pc = "idle"
    /\ answer \in [query : {<<"q">>},
                   context_chunks : {cs \in SeqsUpTo(AnswerChunks, MaxSources) :
                                        DistinctChunks(cs)},
                   llm_fails : BOOLEAN, result : {NoResult}, chunk_texts : {<<>>}]
    /\ NoSearch /\ NoNormalize /\ NoSplit /\ NoEmb /\ NoKw /\ NoCalls /\ NoView
    /\ NoTfidf /\ NoIngest

\* gemini_service.py 100-160.
SearchAndAnswerCall ==
    /\ pc = "idle"
    /\ answer' = [answer EXCEPT
                     !.result = SearchAndAnswer(answer.query, answer.context_chunks,
                                                answer.llm_fails)]
    /\ pc' = "search_and_answer"
    /\ UNCHANGED <<normVars, searchVars, chunkVars, emb, kw, callVars, viewVars, tfidf,
                   ingestVars>>

\* views.py 144-163: for every source, the text whose page is looked up.
PageLookup ==
    /\ pc = "search_and_answer"
    /\ answer' = [answer EXCEPT
                     !.chunk_texts = [i \in DOMAIN answer.result.sources |->
                                         ChunkText(answer.context_chunks,
                                                   answer.result.sources[i])] \o <<>>]
    /\ pc' = "page_lookup"
    /\ UNCHANGED <<normVars, searchVars, chunkVars, emb, kw, callVars, viewVars, tfidf,
                   ingestVars>>

NextAnswer == SearchAndAnswerCall \/ PageLookup

SpecAnswer == InitAnswer /\ [][NextAnswer]_vars

(***************************************************************************)
(* Properties of hybrid_search                                             *)
(***************************************************************************)
Searched == pc = "hybrid_search"

DocIdsOf(s) == {GetDocumentId(s[i].metadata) : i \in DOMAIN s}

\* C1: with unique_citations=true no two returned results carry the same document_id.
C1_UniqueCitations ==
    (Searched /\ args.unique_citations) =>
        \A i, j \in DOMAIN ret.val :
            i # j => GetDocumentId(ret.val[i].metadata) # GetDocumentId(ret.val[j].metadata)

\* C1 witness: a call with unique_citations=true in which the walk skipped a candidate
\* of a document already returned, and still returned two results.
C1_Witness ==
    /\ Searched /\ args.unique_citations /\ args.n_results = 10
    /\ Len(candidates) = 3 /\ Len(ret.val) = 2
    /\ Cardinality(DocIdsOf(candidates)) = 2

\* C2 as claimed: the number of results is at most n_results and at most the number
\* of candidates found.
C2_AtMostRequested ==
    Searched => (Len(ret.val) <= args.n_results /\ Len(ret.val) <= Len(resp.documents))

\* C3: the i-th returned result has rank i.
C3_RanksContiguous ==
    Searched => \A i \in DOMAIN ret.val : ret.val[i].rank = i

\* C3 witness: three results returned after deduplication skipped nothing, and two
\* results returned after it skipped a candidate that was not the last.
C3_Witness ==
    /\ Searched /\ args.unique_citations /\ Len(ret.val) = 2 /\ Len(candidates) = 3
    /\ GetDocumentId(candidates[1].metadata) = GetDocumentId(candidates[2].metadata)
    /\ ret.val[2].text = candidates[3].text /\ ret.val[2].rank = 2

\* Every member of every group is within epsilon of the group's anchor, for the
\* semantic-sorted list `sorted` and the re-ranked list c.
WithinBand(sorted, c, epsilon) ==
    \A i \in DOMAIN c :
        /\ RLeq(RSub(sorted[GroupStartOf(sorted, i, epsilon)].semantic_score,
                     c[i].semantic_score), epsilon)
        /\ RLeq(RSub(c[i].semantic_score,
                     sorted[GroupStartOf(sorted, i, epsilon)].semantic_score), epsilon)

\* C4: every candidate of a tie-band has a semantic_score within epsilon of the
\* semantic_score of the band's anchor, the band's first element in semantic order.
C4_TieBandWithinEpsilon ==
    (Searched /\ candidates # <<>>) =>
        WithinBand(SemanticSorted(args, resp), candidates, args.epsilon)

\* C4 witness: three candidates with semantic scores 1, 1/2, 0 and epsilon 1/2: the
\* second is in the first's band, the third is within epsilon of the second and
\* starts a band of its own.
C4_Witness ==
    /\ Searched /\ Len(candidates) = 3 /\ args.epsilon = Rat(1, 2)
    /\ {candidates[1].semantic_score, candidates[2].semantic_score} = {One, Rat(1, 2)}
    /\ candidates[3].semantic_score = Zero
    /\ RLt(candidates[1].semantic_score, candidates[2].semantic_score)

WithoutTfidf(s) ==
    [i \in DOMAIN s |->
        [text |-> s[i].text, metadata |-> s[i].metadata,
         semantic_score |-> s[i].semantic_score, keyword_score |-> s[i].keyword_score,
         score |-> s[i].score, rank |-> s[i].rank]]

\* C5: the same call with include_tfidf flipped returns the same sequence of results
\* up to tfidf_score, and with include_tfidf=false every tfidf_score is 0.0.
C5_TfidfNotInOrdering ==
    Searched =>
        /\ WithoutTfidf(ret.val) =
           WithoutTfidf(HybridSearch([args EXCEPT !.include_tfidf = ~args.include_tfidf], resp).ret.val)
        /\ ~args.include_tfidf =>
               \A i \in DOMAIN ret.val :
                   "tfidf_score" \in DOMAIN ret.val[i] /\ ret.val[i].tfidf_score = Zero

\* C5 witness: with include_tfidf=true two results of one tie-band are returned in an
\* order that tfidf_score alone would reverse.
C5_Witness ==
    /\ Searched /\ args.include_tfidf /\ Len(ret.val) >= 2
    /\ ret.val[1].semantic_score = ret.val[2].semantic_score
    /\ ret.val[1].keyword_score = ret.val[2].keyword_score
    /\ RLt(ret.val[1].tfidf_score, ret.val[2].tfidf_score)

\* C6: hybrid_search never raises; when the store fails, returns no candidate, or an
\* exception occurs in the walk, the caller gets the empty list.
C6_FailOpen ==
    Searched =>
        /\ ~ret.raised
        /\ (resp.raises \/ resp.documents = <<>> \/ DedupAndRank(args, candidates).exc)
               => ret.val = <<>>

\* C6 witness: the store answered with candidates, the walk reached a candidate whose
\* metadata is None, and the caller got the empty list.
C6_Witness ==
    /\ Searched /\ ~resp.raises /\ Len(resp.documents) = 3
    /\ ~IsNoneMeta(candidates[1].metadata)
    /\ DedupAndRank(args, candidates).exc
    /\ ret = [raised |-> FALSE, val |-> <<>>]

\* C7 as claimed: a negative top_k raises to the caller before the store is queried.
C7_InvalidConfigRaises ==
    (Searched /\ args.top_k < 0) => (ret.raised /\ store_log = <<>>)

\* C7 amended: a negative top_k does not raise: the store is queried with it, and the
\* caller gets the empty list.
C7_InvalidConfigFailsOpen ==
    (Searched /\ args.top_k < 0) =>
        /\ ~ret.raised
        /\ ret.val = <<>>
        /\ Len(store_log) = 1 /\ store_log[1].n_results = args.top_k

\* C7 witness: a call with top_k = -1 has returned.
C7_Witness == Searched /\ args.top_k = -1 /\ resp.raises /\ store_log # <<>>

(***************************************************************************)
(* Properties of _normalize_scores                                         *)
(***************************************************************************)
Normalized == pc = "normalize"

\* The least and the greatest element of a non-empty list, by their definition.
LeastOf(s)    == CHOOSE m \in Range(s) : \A x \in Range(s) : RLeq(m, x)
GreatestOf(s) == CHOOSE m \in Range(s) : \A x \in Range(s) : RLeq(x, m)

\* C8: _normalize_scores keeps length and order; when all inputs are equal every
\* output is 0.0; otherwise the i-th output is (s_i - min)/(max - min), lies in
\* [0,1], the minimum maps to 0 and the maximum to 1; the empty list maps to itself.
C8_MinMaxNormalization ==
    Normalized =>
        /\ Len(normed) = Len(scores)
        /\ scores = <<>> => normed = <<>>
        /\ \A i \in DOMAIN scores :
              IF Cardinality(Range(scores)) = 1
              THEN normed[i] = Zero
              ELSE /\ normed[i] = RDiv(RSub(scores[i], LeastOf(scores)),
                                       RSub(GreatestOf(scores), LeastOf(scores)))
                   /\ RLeq(Zero, normed[i]) /\ RLeq(normed[i], One)
                   /\ scores[i] = LeastOf(scores) => normed[i] = Zero
                   /\ scores[i] = GreatestOf(scores) => normed[i] = One

\* C8 witness: three different scores, one of them negative, normalized to 0, a value
\* strictly between 0 and 1, and 1.
C8_Witness ==
    /\ Normalized /\ Len(scores) = 3 /\ Cardinality(Range(scores)) = 3
    /\ scores[2] = Rat(-1, 2) /\ normed[2] = Zero
    /\ normed[3] = One
    /\ RLt(Zero, normed[1]) /\ RLt(normed[1], One)

(***************************************************************************)
(* Properties of split_text_into_chunks                                    *)
(***************************************************************************)
Split == pc = "split"

\* C9: the chunk_index values are 0, 1, ..., k-1 in emission order.
C9_ChunkIndexSequential ==
    Split => \A i \in DOMAIN chunks : chunks[i].chunk_index = i - 1

\* C9 witness: three chunks were emitted.
C9_Witness == Split /\ Len(chunks) = 3 /\ chunks[3].chunk_index = 2

RECURSIVE Join(_, _, _)
\* The sentences lo..hi joined by single spaces.
Join(sentences, lo, hi) ==
    IF lo > hi THEN <<>>
    ELSE IF lo = hi THEN sentences[lo]
    ELSE sentences[lo] \o <<" ">> \o Join(sentences, lo + 1, hi)

RECURSIVE Covers(_, _, _, _)
\* The chunks j.. are runs of consecutive sentences that continue a cover of the
\* sentences 1..done: each starts no later than the first sentence not yet covered,
\* ends later than the chunk before it, and the last ends with the last sentence.
Covers(sentences, cs, j, done) ==
    IF j > Len(cs) THEN done = Len(sentences)
    ELSE \E lo \in 1..(done + 1) : \E hi \in (done + 1)..Len(sentences) :
            /\ cs[j].text = Join(sentences, lo, hi)
            /\ Covers(sentences, cs, j + 1, hi)

\* C10: for non-empty input the chunk texts, overlap duplication ignored, cover the
\* sentences of the cleaned text: every sentence is in a chunk, in input order, none
\* dropped.
C10_ChunksCoverSentences ==
    (Split /\ Strip(text) # <<>>) =>
        Covers(SplitIntoSentences(CleanText(text)), chunks, 1, 0)

\* C10 witness: three sentences in three chunks, the second chunk repeating the first
\* one's sentence as overlap.
C10_Witness ==
    /\ Split /\ Len(SplitIntoSentences(CleanText(text))) = 3 /\ Len(chunks) = 3
    /\ chunks[2].text = chunks[1].text \o <<" ">> \o SplitIntoSentences(CleanText(text))[2]
    /\ chunks[1].text # chunks[3].text

\* The number of chunks emitted for the first k sentences.
ChunksAfter(sentences, k, c) ==
    Len(ChunkLoop(SubSeq(sentences, 1, k), 1, <<>>, <<>>, 0, c))

\* The sentence at which the loop closed chunk j: the first k whose prefix gives j + 1
\* chunks.  The closed chunk's last sentence is k - 1.
ClosedAt(sentences, j, c) ==
    CHOOSE k \in 2..Len(sentences) :
        /\ ChunksAfter(sentences, k, c) = j + 1
        /\ ChunksAfter(sentences, k - 1, c) = j

IsPrefix(p, t) == Len(p) <= Len(t) /\ SubSeq(t, 1, Len(p)) = p
IsSuffix(p, t) == Len(p) <= Len(t) /\ SubSeq(t, Len(t) - Len(p) + 1, Len(t)) = p

\* Chunk j + 1 starts with a suffix of whole sentences of chunk j, followed by the
\* sentence that closed chunk j.
StartsWithTail(sentences, cs, j, k) ==
    \E lo \in 1..(k - 1) :
        /\ IsPrefix(Join(sentences, lo, k - 1) \o <<" ">> \o sentences[k], cs[j + 1].text)
        /\ IsSuffix(Join(sentences, lo, k - 1), cs[j].text)

\* C11 as claimed: whenever the last sentence of a closed chunk is no longer than
\* chunk_overlap, the next chunk's text starts with whole sentences that end the
\* closed chunk.
C11_OverlapSeedsNextChunk ==
    (Split /\ Strip(text) # <<>>) =>
        \A j \in 1..(Len(chunks) - 1) :
            Len(SplitIntoSentences(CleanText(text))[ClosedAt(SplitIntoSentences(CleanText(text)), j, cfg) - 1])
                    <= cfg.chunk_overlap
                => StartsWithTail(SplitIntoSentences(CleanText(text)), chunks, j,
                                  ClosedAt(SplitIntoSentences(CleanText(text)), j, cfg))

\* Every chunk's text is at most chunk_size + chunk_overlap + 1 characters long.
WithinSlack(cs, c) ==
    \A j \in DOMAIN cs : Len(cs[j].text) <= c.chunk_size + c.chunk_overlap + 1

SentencesFit(sentences, c) == \A k \in DOMAIN sentences : Len(sentences[k]) <= c.chunk_size

\* Some sentence after the first does not fit behind the sentences before it.
Overflows(sentences, c) ==
    \E k \in 2..Len(sentences) :
        Len(Join(sentences, 1, k - 1)) + Len(sentences[k]) > c.chunk_size

NoSentenceContent(t) ==
    \A i \in DOMAIN t : IsSpace(t[i]) \/ IsTerminator(t[i]) \/ ~IsKept(t[i])

\* C13: empty or whitespace-only text, and text without any sentence after cleaning,
\* gives the empty sequence; no emitted chunk has an empty text.
C13_DegenerateInputNoChunks ==
    Split =>
        /\ Strip(text) = <<>> => chunks = <<>>
        /\ NoSentenceContent(text) => chunks = <<>>
        /\ \A j \in DOMAIN chunks : chunks[j].text # <<>>

\* C13 witness: a text that is not blank but consists of terminal punctuation and a
\* stripped special character gave no chunk.
C13_Witness ==
    /\ Split /\ chunks = <<>> /\ Strip(text) # <<>>
    /\ "." \in Range(text) /\ "#" \in Range(text) /\ NoSentenceContent(text)

(***************************************************************************)
(* Properties of create_chunk_embedding_id                                 *)
(***************************************************************************)
Created == pc = "create_id"

\* The positions at which "_chunk_" occurs in id.
InfixPositions(id) ==
    {p \in 1..(Len(id) - Len(ChunkInfix) + 1) :
        SubSeq(id, p, p + Len(ChunkInfix) - 1) = ChunkInfix}

Greatest(S) == CHOOSE x \in S : \A y \in S : y <= x

\* The natural number the digits ds denote, -1 if ds is not a string of digits.
ToNat(ds) ==
    IF ds = <<>> \/ \E i \in DOMAIN ds : ds[i] \notin Range(DigitChars) THEN -1
    ELSE CHOOSE n \in 0..Greatest(ChunkIndexes) : Digits(n) = ds

\* The id split at the last "_chunk_".
ParseEmbeddingId(id) ==
    IF InfixPositions(id) = {} THEN [document_id |-> <<>>, chunk_index |-> -1]
    ELSE [document_id |-> SubSeq(id, 1, Greatest(InfixPositions(id)) - 1),
          chunk_index |-> ToNat(SubSeq(id, Greatest(InfixPositions(id)) + Len(ChunkInfix),
                                       Len(id)))]

\* C14: splitting the id at its last "_chunk_" recovers document_id and chunk_index,
\* and no other pair of a document id and a non-negative index gives the same id.
C14_EmbeddingIdRoundTrip ==
    Created =>
        /\ ParseEmbeddingId(emb.id) =
               [document_id |-> emb.document_id, chunk_index |-> emb.chunk_index]
        /\ \A d \in DocumentIds : \A i \in ChunkIndexes :
               CreateChunkEmbeddingId(d, i) = emb.id
                   => (d = emb.document_id /\ i = emb.chunk_index)

\* C14 witness: the id of a document id that itself ends like an embedding id.
C14_Witness ==
    /\ Created /\ emb.document_id = ChunkInfix \o <<"1">> /\ emb.chunk_index = 10
    /\ Cardinality(InfixPositions(emb.id)) = 2

(***************************************************************************)
(* Properties of _keyword_overlap_score                                    *)
(***************************************************************************)
KeywordScored == pc = "keyword_score"

\* The distinct lower-cased words of a text.
Terms(t) == {Lower(t[i]) : i \in DOMAIN t}

\* The distinct query terms that occur in the document, in any case.
Hits(query, doc) == {q \in Terms(query) : \E j \in DOMAIN doc : Lower(doc[j]) = q}

\* C15: the score is |query terms that occur in the document| / |query terms| over
\* distinct lower-cased terms, lies in [0,1], and is 0.0 when the query has no token.
C15_KeywordOverlapFraction ==
    KeywordScored =>
        /\ kw.query = <<>> => kw.score = Zero
        /\ kw.score.n * Cardinality(Terms(kw.query)) =
               Cardinality(Hits(kw.query, kw.doc)) * kw.score.d
        /\ RLeq(Zero, kw.score) /\ RLeq(kw.score, One)

\* C15 witness: a query that repeats one of its two terms in another case, and a
\* document that holds that term only: the score is 1/2.
C15_Witness ==
    /\ KeywordScored /\ kw.query = <<"Machine", "deep", "machine">>
    /\ kw.doc = <<"machine", "machine">> /\ kw.score = Rat(1, 2)

(***************************************************************************)
(* Properties of the deduplication walk                                    *)
(***************************************************************************)
\* The positions of c that deduplication must keep: every candidate without a
\* document_id, and the first candidate of every document_id.
KeptPositions(c) ==
    {i \in DOMAIN c :
        \/ GetDocumentId(c[i].metadata) = PyNone
        \/ \A j \in 1..(i - 1) : GetDocumentId(c[j].metadata) # GetDocumentId(c[i].metadata)}

\* The k-th smallest element of the set of positions P.
NthOf(P, k) == CHOOSE i \in P : Cardinality({j \in P : j <= i}) = k

Max(a, b) == IF a >= b THEN a ELSE b

\* C16: with unique_citations=true and no candidate lacking its metadata altogether,
\* the results are, in order, the candidates without document_id and the first
\* candidate of each document_id, up to the requested number: a candidate without
\* document_id is never skipped and never makes another one be skipped.
C16_MissingIdIsOwnKey ==
    (Searched /\ args.unique_citations /\ ~resp.raises
        /\ \A i \in DOMAIN candidates : ~IsNoneMeta(candidates[i].metadata)) =>
        /\ Len(ret.val) = Min(Max(args.n_results, 1), Cardinality(KeptPositions(candidates)))
        /\ \A k \in DOMAIN ret.val :
              /\ ret.val[k].text = candidates[NthOf(KeptPositions(candidates), k)].text
              /\ ret.val[k].metadata = candidates[NthOf(KeptPositions(candidates), k)].metadata

\* C16 witness: two candidates without document_id and, between them in the re-ranked
\* order or after them, one of document d1: all three are returned.
C16_Witness ==
    /\ Searched /\ args.unique_citations /\ Len(ret.val) = 3
    /\ GetDocumentId(ret.val[1].metadata) = PyNone
    /\ GetDocumentId(ret.val[2].metadata) = PyNone
    /\ GetDocumentId(ret.val[3].metadata) = "d1"

(***************************************************************************)
(* Properties of the document_ids allow-list                               *)
(***************************************************************************)
\* C17 as claimed: whenever document_ids is a list, the empty list included, every
\* returned result's document_id is a member of it.
C17_ResultsWithinAllowList ==
    (Searched /\ ~args.document_ids.is_none) =>
        \A i \in DOMAIN ret.val :
            GetDocumentId(ret.val[i].metadata) \in Range(args.document_ids.ids)

(***************************************************************************)
(* The scenario: distances 0.10, 0.15, 0.90 for d1/chunk0, d1/chunk1, d2/chunk0 *)
(***************************************************************************)
ChunkOf(r) == <<GetDocumentId(r.metadata), r.metadata.chunk_index>>

\* C18: the scenario returns exactly two results, d1 with rank 1 and d2 with rank 2.
\* The two d1 chunks are not in one tie-band (their semantic scores 1 and 15/16 differ
\* by more than epsilon), and the d1 chunk returned is the semantically closer one,
\* d1/chunk0.
C18_ScenarioTwoResults ==
    Searched =>
        /\ Len(ret.val) = 2
        /\ ChunkOf(ret.val[1]) = <<"d1", 0>> /\ ret.val[1].rank = 1
        /\ ChunkOf(ret.val[2]) = <<"d2", 0>> /\ ret.val[2].rank = 2
        /\ RLt(args.epsilon, RSub(candidates[1].semantic_score, candidates[2].semantic_score))
        /\ RLeq(candidates[2].semantic_score, ret.val[1].semantic_score)

\* C18 witness: the scenario's call has returned with n_results=5; d1/chunk1, second in
\* the local list with semantic score 15/16, was skipped for d2/chunk0 with score 0.
C18_Witness ==
    /\ Searched /\ args.n_results = 5 /\ Len(candidates) = 3 /\ Len(ret.val) = 2
    /\ ChunkOf(candidates[2]) = <<"d1", 1>> /\ candidates[2].semantic_score = Rat(15, 16)
    /\ ret.val[2].semantic_score = Zero

(***************************************************************************)
(* Properties of concurrent hybrid_search calls                            *)
(***************************************************************************)
\* What the call with arguments a returns when it runs alone on the contents coll.
Alone(a, coll) == HybridSearch(a, StoreQuery(coll, WhereClause(a.document_ids), a.top_k)).ret

\* C19: whatever the interleaving, a call that has returned has returned what it
\* returns when run alone on the collection's contents, and no step of hybrid_search
\* changes the collection.
C19_CallsDoNotInterfere ==
    /\ [](\A p \in Callers :
            calls # <<>> /\ calls[p].pc = "returned"
                => calls[p].ret = Alone(calls[p].args, collection))
    /\ [][collection' = collection]_vars

\* C19 witness: one call has returned a result while the other, with another top_k,
\* is between scoring and re-ranking a different candidate list.
C19_Witness ==
    /\ calls # <<>>
    /\ calls["t1"].pc = "returned" /\ Len(calls["t1"].ret.val) = 2
    /\ calls["t2"].pc = "scored" /\ Len(calls["t2"].candidates) = 1

(***************************************************************************)
(* Properties of the views                                                 *)
(***************************************************************************)
Answered == pc \in {"query_documents", "post_chat_message"}

\* The text of the response, under the key the view uses for it.
MessageOf(body) ==
    IF "response" \in DOMAIN body THEN body.response
    ELSE IF "answer" \in DOMAIN body THEN body.answer
    ELSE ""

\* C20: when the view's hybrid_search call returned the empty list, the view answers
\* with status 200, its no-relevant-information message and an empty sources list,
\* and search_and_answer was not called.
C20_EmptyResultIsNoInformation ==
    (Answered /\ store_log # <<>> /\ ret.val = <<>>) =>
        /\ response.status = 200
        /\ "sources" \in DOMAIN response.body /\ response.body.sources = <<>>
        /\ MessageOf(response.body) =
               (IF pc = "query_documents" THEN NoInfoQuery ELSE NoInfoChat)
        /\ llm_log = <<>>

\* C20 witness: post_chat_message searched, the store failed, hybrid_search returned
\* the empty list; the fallback answer was stored as the assistant's message.
C20_Witness ==
    /\ pc = "post_chat_message" /\ resp.raises /\ Len(store_log) = 1 /\ ret.val = <<>>
    /\ response.status = 200 /\ Len(db.messages) = 2
    /\ db.messages[2].content = NoInfoChat

(***************************************************************************)
(* Properties of the tie-band re-ranking                                   *)
(***************************************************************************)
\* The group starts of the semantic-descending list s: position 1, and every later
\* position whose score is more than epsilon below the score at the nearest start
\* before it.
AnchoredStarts(s, epsilon) ==
    CHOOSE B \in SUBSET (DOMAIN s) :
        /\ 1 \in B
        /\ \A i \in DOMAIN s \ {1} :
               i \in B <=> RLt(epsilon, RSub(s[Greatest({b \in B : b < i})].semantic_score,
                                            s[i].semantic_score))

Least(S) == CHOOSE x \in S : \A y \in S : x <= y

\* The last position of the group that starts at b.
GroupEnd(B, b, n) == IF \E e \in B : e > b THEN Least({e \in B : e > b}) - 1 ELSE n

Slice(s, lo, hi) == {s[i] : i \in lo..hi}

\* The groups of the re-ranked list c are the anchored groups of the sorted list.
GroupsAnchored(sorted, c, B) ==
    /\ Len(c) = Len(sorted)
    /\ \A b \in B :
          Slice(c, b, GroupEnd(B, b, Len(sorted))) = Slice(sorted, b, GroupEnd(B, b, Len(sorted)))

\* C22: the tie-bands are the anchored groups: a candidate starts a new group exactly
\* when the score of the current group's first element exceeds its own by more than
\* epsilon, and the re-ranking keeps every candidate inside its anchored group.
C22_BandsAnchored ==
    (Searched /\ candidates # <<>>) =>
        GroupsAnchored(SemanticSorted(args, resp), candidates,
                       AnchoredStarts(SemanticSorted(args, resp), args.epsilon))

\* C22 witness: scores 1, 1/2, 0 with epsilon 1/2: the third candidate is within
\* epsilon of the second, starts a group of its own, and stays last although its
\* keyword_score is the greater of the two.
C22_Witness ==
    /\ Searched /\ Len(candidates) = 3 /\ args.epsilon = Rat(1, 2)
    /\ candidates[3].semantic_score = Zero
    /\ candidates[2].semantic_score = Rat(1, 2)
    /\ RLt(candidates[2].keyword_score, candidates[3].keyword_score)

\* The position of the candidate x in the list s.
PosIn(s, x) == CHOOSE i \in DOMAIN s : s[i] = x

\* For the sorted list, the re-ranked list c and epsilon: order changes only inside
\* a group, a group is keyword-descending, and its members are unchanged.
OnlyInsideBands(sorted, c, epsilon) ==
    /\ \A i, j \in DOMAIN c :
          i < j =>
              \/ /\ GroupStartOf(sorted, PosIn(sorted, c[i]), epsilon)
                        = GroupStartOf(sorted, PosIn(sorted, c[j]), epsilon)
                 /\ RLeq(c[j].keyword_score, c[i].keyword_score)
              \/ GroupStartOf(sorted, PosIn(sorted, c[i]), epsilon)
                     < GroupStartOf(sorted, PosIn(sorted, c[j]), epsilon)
    /\ \A i, j \in DOMAIN c :
          RLt(epsilon, RSub(c[i].semantic_score, c[j].semantic_score)) => i < j
    /\ \A g \in DOMAIN sorted :
          {c[i] : i \in {k \in DOMAIN c : GroupStartOf(sorted, k, epsilon) = g}}
              = {sorted[i] : i \in {k \in DOMAIN sorted : GroupStartOf(sorted, k, epsilon) = g}}

\* C23: in the re-ranked sequence, a candidate precedes another only if they are in
\* one group and its keyword_score is not smaller, or its group comes first; a
\* candidate more than epsilon above another precedes it; every group keeps its members.
C23_RerankOnlyInsideBand ==
    (Searched /\ candidates # <<>>) =>
        /\ Len(candidates) = Len(resp.documents)
        /\ OnlyInsideBands(SemanticSorted(args, resp), candidates, args.epsilon)

\* C23 witness: the first two candidates were swapped inside their band by
\* keyword_score, and the third, of the next band, has the greatest keyword_score of all.
C23_Witness ==
    /\ Searched /\ Len(candidates) = 3
    /\ RLt(candidates[1].semantic_score, candidates[2].semantic_score)
    /\ RLt(candidates[2].keyword_score, candidates[1].keyword_score)
    /\ RLt(args.epsilon, RSub(candidates[2].semantic_score, candidates[3].semantic_score))
    /\ RLt(candidates[2].keyword_score, candidates[3].keyword_score)

\* The positions of c that hold the first candidate of their document_id.
FirstOccurrences(c) ==
    {i \in DOMAIN c :
        \A j \in 1..(i - 1) : GetDocumentId(c[j].metadata) # GetDocumentId(c[i].metadata)}

\* A result without its rank.
Unranked(r) ==
    [text |-> r.text, metadata |-> r.metadata, semantic_score |-> r.semantic_score,
     keyword_score |-> r.keyword_score, tfidf_score |-> r.tfidf_score, score |-> r.score]

CarriesDocumentId(x) == ~IsNoneMeta(x.metadata) /\ GetDocumentId(x.metadata) # PyNone

\* C24: for n_results >= 1 and candidates that all carry a document_id, the results
\* are, with unique_citations, the first candidates of each document_id in re-ranked
\* order up to n_results, and without it the first n_results candidates.
C24_DedupWalk ==
    (Searched /\ args.n_results >= 1 /\ ~resp.raises
        /\ \A i \in DOMAIN candidates : CarriesDocumentId(candidates[i])) =>
        IF args.unique_citations
        THEN /\ Len(ret.val) = Min(args.n_results, Cardinality(DocIdsOf(candidates)))
             /\ \A k \in DOMAIN ret.val :
                   Unranked(ret.val[k]) = candidates[NthOf(FirstOccurrences(candidates), k)]
        ELSE /\ Len(ret.val) = Min(args.n_results, Len(candidates))
             /\ \A k \in DOMAIN ret.val : Unranked(ret.val[k]) = candidates[k]

\* C24 witness: of three candidates the second was skipped as a duplicate of the
\* first, and the third was returned second, which filled n_results = 2.
C24_Witness ==
    /\ Searched /\ args.unique_citations /\ args.n_results = 2
    /\ Len(candidates) = 3 /\ Len(ret.val) = 2
    /\ GetDocumentId(candidates[1].metadata) = GetDocumentId(candidates[2].metadata)
    /\ Unranked(ret.val[2]) = candidates[3]

\* The distance the store gave for the candidate x.
DistanceOf(r, x) ==
    r.distances[CHOOSE i \in DOMAIN r.documents :
                    r.documents[i] = x.text /\ r.metadatas[i] = x.metadata]

LeastDistance(r)    == CHOOSE d \in Range(r.distances) : \A e \in Range(r.distances) : d <= e
GreatestDistance(r) == CHOOSE d \in Range(r.distances) : \A e \in Range(r.distances) : d >= e

InUnit(q) == RLeq(Zero, q) /\ RLeq(q, One)

\* The candidates c carry the min-max-normalized similarity 1 - distance of the
\* store's answer r as semantic_score and as score.
SemanticPrimary(r, c, lo, hi) ==
    /\ Len(c) = Len(r.documents)
    /\ \A i \in DOMAIN r.documents :
          \E j \in DOMAIN c : c[j].text = r.documents[i] /\ c[j].metadata = r.metadatas[i]
    /\ \A j \in DOMAIN c :
          /\ c[j].semantic_score =
                 IF hi = lo THEN Zero ELSE Rat(hi - DistanceOf(r, c[j]), hi - lo)
          /\ c[j].score = c[j].semantic_score
          /\ InUnit(c[j].semantic_score) /\ InUnit(c[j].keyword_score)
          /\ InUnit(c[j].tfidf_score)
    /\ \A i, j \in DOMAIN c :
          DistanceOf(r, c[i]) < DistanceOf(r, c[j])
              => RLeq(c[j].semantic_score, c[i].semantic_score)
    /\ hi = lo =>
          /\ \A j \in DOMAIN c : c[j].semantic_score = Zero
          /\ \A i, j \in DOMAIN c : i < j => RLeq(c[j].keyword_score, c[i].keyword_score)

\* C25: score equals semantic_score, which is the min-max-normalized 1 - distance
\* over the candidates; all score fields are in [0,1]; with equal distances or one
\* candidate every semantic_score is 0.0 and the candidates are ordered by keyword_score.
C25_SemanticPrimary ==
    (Searched /\ candidates # <<>>) =>
        /\ SemanticPrimary(resp, candidates, LeastDistance(resp), GreatestDistance(resp))
        /\ \A k \in DOMAIN ret.val :
              /\ ret.val[k].score = ret.val[k].semantic_score
              /\ \E j \in DOMAIN candidates : Unranked(ret.val[k]) = candidates[j]

\* C25 witness: three candidates at one distance, returned by keyword_score in an
\* order that differs from the store's.
C25_Witness ==
    /\ Searched /\ Len(candidates) = 3 /\ Len(ret.val) = 3
    /\ LeastDistance(resp) = GreatestDistance(resp)
    /\ candidates[1].text # resp.documents[1]
    /\ RLt(candidates[3].keyword_score, candidates[1].keyword_score)

\* Ties keep their earlier order: in the sorted list that of the store's answer r,
\* in the re-ranked list c that of the sorted list.
StableOrder(r, sorted, c, epsilon) ==
    /\ \A i, j \in DOMAIN sorted :
          (i < j /\ sorted[i].semantic_score = sorted[j].semantic_score)
              => PosIn(r.documents, sorted[i].text) < PosIn(r.documents, sorted[j].text)
    /\ \A i, j \in DOMAIN c :
          (/\ i < j
           /\ GroupStartOf(sorted, i, epsilon) = GroupStartOf(sorted, j, epsilon)
           /\ c[i].keyword_score = c[j].keyword_score)
              => PosIn(sorted, c[i]) < PosIn(sorted, c[j])

TfidfComputed == pc = "compute_tfidf"

\* The distinct terms of a text.
TermsOf(t) == {Lower(t[i]) : i \in DOMAIN t}

\* The number of the documents docs that contain the term t.
DocsWith(docs, t) == Cardinality({i \in DOMAIN docs : t \in TermsOf(docs[i])})

\* ln((N + 1) / (df + 1)) + 1 in thousandths.
IdfMilli(N, df) == LnTable[N + 1] - LnTable[df + 1] + 1000

\* The number of tokens of doc that are t.
Occurrences(doc, t) == Cardinality({p \in DOMAIN doc : Lower(doc[p]) = t})

\* tf(t) * idf(t) of the query term t present in doc, one of docs.
Weight(docs, doc, t) ==
    Rat(Occurrences(doc, t) * IdfMilli(Len(docs), DocsWith(docs, t)), Len(doc) * 1000)

\* The sum of tf(t) * idf(t) over the query terms present in doc.
RawScore(query, docs, doc) ==
    RSumOver(TermsOf(query) \cap TermsOf(doc),
             [t \in TermsOf(query) \cap TermsOf(doc) |-> Weight(docs, doc, t)])

\* A token outside every query.
OtherWord == "other"

\* docs with the token at position p of document i replaced by w.
Replaced(docs, i, p, w) == [docs EXCEPT ![i] = [docs[i] EXCEPT ![p] = w]]

\* C26: a document's raw TF-IDF score is the sum over the query terms present in it
\* of tf(t) * idf(t), with idf(t) >= 1; it is 0.0 exactly when the document has no
\* token or no query term, strictly positive otherwise, and replacing a token that
\* is not a query term by another such token changes no score.
C26_TfidfOverQueryTerms ==
    TfidfComputed =>
        /\ Len(tfidf.scores) = Len(tfidf.docs)
        /\ \A i \in DOMAIN tfidf.docs :
              /\ tfidf.scores[i] = RawScore(tfidf.query, tfidf.docs, tfidf.docs[i])
              /\ tfidf.scores[i] = Zero
                     <=> (TermsOf(tfidf.query) \cap TermsOf(tfidf.docs[i]) = {})
              /\ tfidf.scores[i] # Zero => RLt(Zero, tfidf.scores[i])
              /\ \A p \in DOMAIN tfidf.docs[i] :
                    Lower(tfidf.docs[i][p]) \notin TermsOf(tfidf.query) =>
                        ComputeTfidfScores(tfidf.query, Replaced(tfidf.docs, i, p, OtherWord))
                            = tfidf.scores
        /\ \A t \in TermsOf(tfidf.query) :
              IdfMilli(Len(tfidf.docs), DocsWith(tfidf.docs, t)) >= 1000

\* C26 witness: the query term is in both documents, twice in the first, once next to
\* a token that is not a query term in the second, which scores half as much.
C26_Witness ==
    /\ TfidfComputed /\ tfidf.query = <<"machine">>
    /\ tfidf.docs = << <<"Machine", "machine">>, <<"deep", "machine">> >>
    /\ tfidf.scores = <<One, Rat(1, 2)>>

(***************************************************************************)
(* Properties of the collection's contents                                 *)
(***************************************************************************)
\* The entries of the collection coll whose metadata names document_id.
EntriesOf(coll, document_id) == {e \in coll : e.metadata.document_id = document_id}

\* The calls of delete_document_chunks made so far.
StoreDeletes == {k \in DOMAIN ops : ops[k].op = "store_delete"}

\* C21: delete_document_chunks never raises; when the store works it returns True and
\* removes exactly the entries whose metadata document_id is the given id, also when
\* there are none; when the store fails it returns False.
C21_DeleteByDocument ==
    \A k \in StoreDeletes :
        /\ ~ops[k].raised
        /\ ops[k].ok = ~ops[k].store_fails
        /\ ops[k].ok =>
              /\ EntriesOf(ops[k].after, ops[k].document_id) = {}
              /\ \A e \in ops[k].before :
                    e.metadata.document_id # ops[k].document_id => e \in ops[k].after
              /\ ops[k].after \subseteq ops[k].before
              /\ EntriesOf(ops[k].before, ops[k].document_id) = {} => ops[k].after = ops[k].before

\* C21 witness: a delete for d1 that returned True removed the two chunks of d1 and
\* left the chunk of d2, and a later delete for d1 returned True and removed nothing.
C21_Witness ==
    \E k, m \in StoreDeletes :
        /\ k < m
        /\ ops[k].ok /\ ops[k].document_id = D1
        /\ Cardinality(EntriesOf(ops[k].before, D1)) = 2
        /\ Cardinality(ops[k].after) = 1 /\ EntriesOf(ops[k].after, D2) = ops[k].after
        /\ ops[m].ok /\ ops[m].document_id = D1 /\ ops[m].after = ops[m].before

(***************************************************************************)
(* Properties of ingest_pdfs                                               *)
(***************************************************************************)
\* The DocumentChunk rows of document_id among chunk_rows.
RowsOf(chunk_rows, document_id) == {x \in chunk_rows : x.document_id = document_id}

\* The last n calls of the log are, in order, the operations names on document_id.
EndsWith(log, names, document_id) ==
    /\ Len(log) >= Len(names)
    /\ \A i \in DOMAIN names :
          /\ log[Len(log) - Len(names) + i].op = names[i]
          /\ log[Len(log) - Len(names) + i].document_id = document_id
          /\ log[Len(log) - Len(names) + i].caller = "ingest_pdfs"

\* ingest_pdfs is processing, or has just processed, a document that existed.
Reingesting(at) == ing.pc = at /\ ~ing.created /\ ing.force

\* No two entries of coll, and no two rows of chunk_rows, for one chunk of a document.
NoDuplicates(coll, chunk_rows) ==
    /\ \A e, x \in coll :
          (e.metadata.document_id = x.metadata.document_id
              /\ e.metadata.chunk_index = x.metadata.chunk_index) => e = x
    /\ \A e, x \in chunk_rows :
          (e.document_id = x.document_id /\ e.chunk_index = x.chunk_index) => e = x

\* A re-ingestion that has reached the point `at` has made the calls names last, the
\* first two being the deletes: no row is left, and no entry if the store's delete
\* returned True.
DeletedFirst(at, names) ==
    Reingesting(at) =>
        /\ EndsWith(ops, names, ing.document_id)
        /\ RowsOf(ops[Len(ops) - Len(names) + 1].after, ing.document_id) = {}
        /\ ops[Len(ops) - Len(names) + 2].ok
               => EntriesOf(ops[Len(ops) - Len(names) + 2].after, ing.document_id) = {}

\* C27: when ingest_pdfs processes a document that exists, it deletes the document's
\* rows and asks the store to delete its entries before it creates a row or adds an
\* entry; rows and entries are only ever added to a document that has none; the
\* store and the table hold at most one entry per document and chunk index.
C27_DeleteThenAdd ==
    /\ DeletedFirst("reset_done", <<"db_delete", "store_delete">>)
    /\ DeletedFirst("rows_created", <<"db_delete", "store_delete", "db_create">>)
    /\ (pc = "ingest_add") =>
           DeletedFirst("idle", <<"db_delete", "store_delete", "db_create", "store_add">>)
    /\ \A k \in DOMAIN ops :
          /\ (ops[k].op = "store_add" /\ ops[k].after # ops[k].before)
                 => EntriesOf(ops[k].before, ops[k].document_id) = {}
          /\ (ops[k].op = "db_create" /\ ops[k].after # ops[k].before)
                 => RowsOf(ops[k].before, ops[k].document_id) = {}
    /\ NoDuplicates(store, rows.chunks)

\* C27 witness: d1 was ingested, then ingested again with --force: its two rows and
\* two entries were deleted, and two rows and two entries were added again.
C27_Witness ==
    /\ pc = "ingest_add" /\ Reingesting("idle") /\ ing.document_id = D1
    /\ Len(ops) = 6
    /\ Cardinality(EntriesOf(ops[4].before, D1)) = 2 /\ ops[4].ok
    /\ Cardinality(RowsOf(ops[3].before, D1)) = 2
    /\ ops[6].ok /\ Cardinality(EntriesOf(store, D1)) = 2
    /\ Cardinality(RowsOf(rows.chunks, D1)) = 2

\* The entries of the collection that a row's embedding_id names.
Named(coll, row) == {e \in coll : e.id = row.embedding_id}

\* ingest_pdfs has just processed a file and add_document_chunks returned True.
Ingested ==
    /\ pc = "ingest_add" /\ ing.outcome = "processed"
    /\ ops[Len(ops)].op = "store_add" /\ ops[Len(ops)].ok

\* C30: the id add_document_chunks gives a chunk is create_chunk_embedding_id of the
\* document and the chunk's index; after an ingestion whose add returned True every
\* row of the document names exactly one entry, which carries the row's document_id
\* and chunk_index; at any time an entry a row names carries them.
C30_IdSchemesAgree ==
    /\ \A f \in Files : \A i \in DOMAIN f.chunks :
          StoreEntry(f.id, f.chunks[i]).id
              = CreateChunkEmbeddingId(f.id, f.chunks[i].chunk_index)
    /\ Ingested =>
          /\ Cardinality(RowsOf(rows.chunks, ing.document_id))
                 = Len(FileOf(ing.document_id).chunks)
          /\ \A row \in RowsOf(rows.chunks, ing.document_id) :
                Cardinality(Named(store, row)) = 1
    /\ \A row \in rows.chunks : \A e \in Named(store, row) :
          /\ e.metadata.document_id = row.document_id
          /\ e.metadata.chunk_index = row.chunk_index
          /\ e.document = row.text

\* C30 witness: d1 and d2 have been ingested; the row of chunk 1 of d1 names the one
\* entry d1_chunk_1.
C30_Witness ==
    /\ Ingested /\ ing.document_id = D1
    /\ Cardinality(rows.chunks) = 3 /\ Cardinality(store) = 3
    /\ \E row \in rows.chunks :
          /\ row.chunk_index = 1
          /\ row.embedding_id = <<"d", "1", "_", "c", "h", "u", "n", "k", "_", "1">>
          /\ Cardinality(Named(store, row)) = 1

(***************************************************************************)
(* Properties of search_and_answer                                         *)
(***************************************************************************)
AnswerReturned == pc \in {"search_and_answer", "page_lookup"}

\* The source src is that of the ranked result r.
SourceOf(src, r) ==
    /\ src.document_id = r.metadata.document_id
    /\ src.chunk_index = r.metadata.chunk_index
    /\ src.score = r.score
    /\ Len(r.text) <= 200 => src.text_preview = r.text
    /\ Len(r.text) > 200 =>
          /\ Len(src.text_preview) = 203
          /\ \A p \in 1..200 : src.text_preview[p] = r.text[p]
          /\ \A p \in 201..203 : src.text_preview[p] = "."

\* One source per ranked result, in order, and the full text for the page lookup.
OneSourcePerResult ==
    /\ Len(answer.result.sources) = Len(answer.context_chunks)
    /\ \A i \in DOMAIN answer.context_chunks :
          SourceOf(answer.result.sources[i], answer.context_chunks[i])
    /\ pc = "page_lookup" =>
          /\ Len(answer.chunk_texts) = Len(answer.context_chunks)
          /\ \A i \in DOMAIN answer.context_chunks :
                answer.chunk_texts[i] = answer.context_chunks[i].text

\* C28 as claimed: search_and_answer returns one source per ranked result passed in,
\* in order, with the result's document_id, chunk_index and score and the preview of
\* its text, and the caller looks pages up with the full text.
C28_OneSourcePerResult == AnswerReturned => OneSourcePerResult

\* C28 amended: that holds when the model answered; when the generation raised, the
\* call returns the apology and no source.
C28_SourcesWhenAnswered ==
    AnswerReturned =>
        IF answer.llm_fails
        THEN answer.result = [answer |-> LlmError, sources |-> <<>>, query |-> answer.query]
        ELSE OneSourcePerResult /\ answer.result.answer = Generated

\* C28 witness: two results, of 200 and of 201 characters: the first preview is the
\* text, the second is 203 characters long, and the page of the second is looked up
\* with all its 201 characters.
C28_Witness ==
    /\ pc = "page_lookup" /\ ~answer.llm_fails /\ Len(answer.context_chunks) = 2
    /\ Len(answer.context_chunks[1].text) = 200
    /\ answer.result.sources[1].text_preview = answer.context_chunks[1].text
    /\ Len(answer.context_chunks[2].text) = 201
    /\ Len(answer.result.sources[2].text_preview) = 203
    /\ Len(answer.chunk_texts[2]) = 201

====
